---- MODULE Spec2Model ----
(***************************************************************************)
(* Orion-Assistant: the conversation state machine of the voice email      *)
(* assistant.                                                              *)
(*                                                                         *)
(*   src/src/models/conversation_state.py   ConversationState             *)
(*   src/src/models/email_models.py         EmailDraft, EmailRequest      *)
(*   src/src/models/intent_models.py        IntentType, UserIntent        *)
(*   src/src/services/intent_recognition.py IntentRecognitionService      *)
(*   src/src/services/email_service.py      EmailService                  *)
(*   src/src/agents/conversation_manager.py ConversationManager           *)
(*   src/src/agents/orchestrator.py         EmailAgentProcessor           *)
(*   src/bot.py                             BotManager                    *)
(*                                                                         *)
(* Conventions.  A Python str is a sequence of one-character strings, so   *)
(* that lower(), strip(), substring tests and regular expressions are      *)
(* computed on the characters.  A confidence is an integer number of       *)
(* hundredths (0.7 is 70).  A spoken response is a record [kind, ...] that *)
(* carries the values the f-string interpolates.  Wall-clock values (the   *)
(* timestamp of a history entry, last_interaction) are left out.           *)
(*                                                                         *)
(* Every coroutine awaited inside process_user_input runs synchronous      *)
(* client code (GeminiClient and NylasClient have no async method), so a   *)
(* turn never yields to the event loop: ProcessUserInput is one step.      *)
(***************************************************************************)
EXTENDS Integers, Sequences, FiniteSets, TLC

VARIABLES
    state,   \* ConversationManager.state, a ConversationState
    last,    \* observation of the last operation: its inputs, the state
             \* before it, the response returned and the collaborator calls
    added,   \* observation: every message handed to add_message, in order
    journal, \* observation: per turn so far, the intent recognized and the
             \* phase the turn ended in
    proc,    \* the EmailAgentProcessor, the pipeline task and the transport
    manager  \* the BotManager of src/bot.py, its start_bot and stop_bot calls
             \* in flight and the _run_bot tasks it created

vars == <<state, last, added, journal, proc, manager>>

(***************************************************************************)
(* Bounds of the model                                                     *)
(***************************************************************************)
MaxTurns == 2
MaxSlotTurns == 3
MaxFrames == 3
MaxMessages == 22
MaxRooms == 2
MaxStartRequests == 3
MaxStopRequests == 2

(***************************************************************************)
(* Program constants                                                       *)
(***************************************************************************)
HistoryLimit == 20
DefaultReadCount == 3
ReadInlineLimit == 3
SearchInlineLimit == 2
DefaultSearchLimit == 5
AIConfidenceThreshold == 70
PatternConfidence == 80
ContextConfidence == 70

(***************************************************************************)
(* Python values                                                           *)
(***************************************************************************)
\* None where an enum member or a plain atom is expected
None == "None"
\* None where a str is expected (strs are character sequences)
NoneText == <<"None">>
\* None where an EmailDraft is expected
NoneDraft == [none |-> TRUE]
\* None where an entities dict is expected
NoneEntities == [none |-> TRUE]
\* the empty dict
EmptyDict == <<>>

\* bool(x) of an Optional[str]
Truthy(x) == x # NoneText /\ x # <<>>

\* bool(d) of an Optional[dict]
TruthyDict(d) == d # NoneEntities /\ DOMAIN d # {}

\* d.get(key, default)
Get(d, key, default) == IF key \in DOMAIN d THEN d[key] ELSE default

Min(a, b) == IF a < b THEN a ELSE b

(***************************************************************************)
(* ConversationPhase and IntentType                                        *)
(***************************************************************************)
IDLE == "idle"
COLLECTING_INFO == "collecting_info"
PROCESSING == "processing"
WAITING_CONFIRMATION == "waiting_confirmation"
ERROR == "error"

ConversationPhase == {IDLE, COLLECTING_INFO, PROCESSING, WAITING_CONFIRMATION, ERROR}

SEND_EMAIL == "send_email"
READ_EMAIL == "read_email"
SEARCH_EMAIL == "search_email"
REPLY_EMAIL == "reply_email"
DELETE_EMAIL == "delete_email"
MARK_READ == "mark_read"
CONFIRM == "confirm"
CANCEL == "cancel"
HELP == "help"
REPEAT == "repeat"
CLARIFY == "clarify"
NEXT == "next"
PREVIOUS == "previous"
GREETING == "greeting"
GOODBYE == "goodbye"
THANK_YOU == "thank_you"
UNCLEAR == "unclear"

IntentType ==
    {SEND_EMAIL, READ_EMAIL, SEARCH_EMAIL, REPLY_EMAIL, DELETE_EMAIL, MARK_READ,
     CONFIRM, CANCEL, HELP, REPEAT, CLARIFY, NEXT, PREVIOUS,
     GREETING, GOODBYE, THANK_YOU, UNCLEAR}

UserIntent(type, confidence, entities, text) ==
    [type |-> type, confidence |-> confidence, entities |-> entities,
     original_text |-> text]

(***************************************************************************)
(* EmailDraft, EmailRequest                                                *)
(***************************************************************************)
EmailDraft == [recipient |-> NoneText, subject |-> NoneText, body |-> NoneText]

is_complete(d) == Truthy(d.recipient) /\ Truthy(d.subject) /\ Truthy(d.body)

EmailRequest(to, subject, body) == [to |-> to, subject |-> subject, body |-> body]

(***************************************************************************)
(* ConversationState                                                       *)
(***************************************************************************)
ConversationState ==
    [phase |-> IDLE,
     current_intent |-> None,
     draft_email |-> NoneDraft,
     current_email_id |-> None,
     last_search_query |-> NoneText,
     last_search_results |-> <<>>,
     conversation_history |-> <<>>,
     last_error |-> None]

\* a history that keeps one entry too many
Tail21(h) ==
    IF Len(h) > HistoryLimit THEN SubSeq(h, Len(h) - HistoryLimit, Len(h)) ELSE h

Tail20(h) ==
    IF Len(h) > HistoryLimit THEN SubSeq(h, Len(h) - HistoryLimit + 1, Len(h)) ELSE h

add_message(s, role, content) ==
    [s EXCEPT !.conversation_history =
        Tail20(Append(s.conversation_history, [role |-> role, content |-> content]))]

set_error(s, error) == [s EXCEPT !.phase = ERROR, !.last_error = error]

clear_error(s) ==
    [s EXCEPT !.phase = IF s.phase = ERROR THEN IDLE ELSE s.phase,
              !.last_error = None]

\* a reset that also forgets the history
reset_forgets_history(s) ==
    clear_error([s EXCEPT !.phase = IDLE,
                          !.current_intent = None,
                          !.draft_email = NoneDraft,
                          !.current_email_id = None,
                          !.last_search_query = NoneText,
                          !.last_search_results = <<>>,
                          !.conversation_history = <<>>])

reset(s) ==
    clear_error([s EXCEPT !.phase = IDLE,
                          !.current_intent = None,
                          !.draft_email = NoneDraft,
                          !.current_email_id = None,
                          !.last_search_query = NoneText,
                          !.last_search_results = <<>>])

(***************************************************************************)
(* EmailService: the collaborator calls of the manager.  The outcome of    *)
(* the Nylas client is an input of the turn.                               *)
(***************************************************************************)
\* NylasClient.send_email returns True or False; a raise is caught
email_service_send_email(request, nylas_send) ==
    IF nylas_send = "sent"
    THEN [success |-> TRUE, message |-> "sent", error |-> None]
    ELSE IF nylas_send = "refused"
    THEN [success |-> FALSE, message |-> "failed", error |-> "unknown"]
    ELSE [success |-> FALSE, message |-> "failed", error |-> "exception"]

\* the i-th most recent message of the mailbox, as an EmailSummary
EmailSummary(i) == [sender_name |-> i, subject |-> i]

\* read_recent_emails(limit): emails[:limit] of the mailbox, [] on any raise
email_service_read_recent_emails(limit, nylas_read) ==
    IF nylas_read.raises
    THEN <<>>
    ELSE [i \in 1..Min(nylas_read.available, limit) |-> EmailSummary(i)]

\* search_emails(query, search_field): at most limit=5 results, [] on any raise
email_service_search_emails(query, search_field, nylas_search) ==
    IF nylas_search.raises
    THEN <<>>
    ELSE [i \in 1..Min(nylas_search.found, DefaultSearchLimit) |-> EmailSummary(i)]

(***************************************************************************)
(* ConversationManager: the handlers.  A handler yields the state it       *)
(* leaves, the response it returns and the collaborator calls it made.     *)
(***************************************************************************)
Say(kind) == [kind |-> kind]

\* raised: the exceptions that reached the manager's own try blocks
Ret(s, response) ==
    [state |-> s, response |-> response, sent |-> <<>>, reads |-> <<>>,
     searches |-> <<>>, raised |-> <<>>]

\* a check of the missing fields that forgets the body
_get_missing_email_fields_no_body(s) ==
    IF s.draft_email = NoneDraft
    THEN <<"recipient", "subject", "body">>
    ELSE (IF ~Truthy(s.draft_email.recipient) THEN <<"recipient">> ELSE <<>>)
         \o (IF ~Truthy(s.draft_email.subject) THEN <<"subject">> ELSE <<>>)

\* a check of the missing fields that looks at the body first
_get_missing_email_fields_body_first(s) ==
    IF s.draft_email = NoneDraft
    THEN <<"body", "recipient", "subject">>
    ELSE (IF ~Truthy(s.draft_email.body) THEN <<"body">> ELSE <<>>)
         \o (IF ~Truthy(s.draft_email.recipient) THEN <<"recipient">> ELSE <<>>)
         \o (IF ~Truthy(s.draft_email.subject) THEN <<"subject">> ELSE <<>>)

_get_missing_email_fields(s) ==
    IF s.draft_email = NoneDraft
    THEN <<"recipient", "subject", "body">>
    ELSE (IF ~Truthy(s.draft_email.recipient) THEN <<"recipient">> ELSE <<>>)
         \o (IF ~Truthy(s.draft_email.subject) THEN <<"subject">> ELSE <<>>)
         \o (IF ~Truthy(s.draft_email.body) THEN <<"body">> ELSE <<>>)

_ask_for_missing_field(field) == [kind |-> "ask_field", field |-> field]

_format_email_confirmation(s) ==
    IF s.draft_email = NoneDraft
    THEN Say("no_email_to_confirm")
    ELSE [kind |-> "confirm_prompt",
          recipient |-> s.draft_email.recipient,
          subject |-> s.draft_email.subject,
          body |-> s.draft_email.body]

\* a merge that rebuilds the draft from the turn's entities alone
MergeEntities_replace(draft, entities) ==
    IF TruthyDict(entities)
    THEN [recipient |-> Get(entities, "recipient", NoneText),
          subject |-> Get(entities, "subject", NoneText),
          body |-> Get(entities, "body", NoneText)]
    ELSE draft

\* lines 99-106: entity values overwrite the draft's fields
MergeEntities(draft, entities) ==
    IF TruthyDict(entities)
    THEN [recipient |-> Get(entities, "recipient", draft.recipient),
          subject |-> Get(entities, "subject", draft.subject),
          body |-> Get(entities, "body", draft.body)]
    ELSE draft

\* a send handler that speaks the confirmation prompt without entering
\* WAITING_CONFIRMATION
_handle_send_email_no_confirm(s, intent, env) ==
    LET s1 == [s EXCEPT !.phase = COLLECTING_INFO, !.current_intent = SEND_EMAIL]
        d0 == IF s1.draft_email = NoneDraft THEN EmailDraft ELSE s1.draft_email
        s2 == [s1 EXCEPT !.draft_email = MergeEntities(d0, intent.entities)]
        missing == _get_missing_email_fields(s2)
    IN  IF missing # <<>>
        THEN Ret(s2, _ask_for_missing_field(missing[1]))
        ELSE Ret(s2, _format_email_confirmation(s2))

\* a send handler that looks for missing fields before it merges the entities
_handle_send_email_premerge(s, intent, env) ==
    LET s1 == [s EXCEPT !.phase = COLLECTING_INFO, !.current_intent = SEND_EMAIL]
        d0 == IF s1.draft_email = NoneDraft THEN EmailDraft ELSE s1.draft_email
        missing == _get_missing_email_fields([s1 EXCEPT !.draft_email = d0])
        s2 == [s1 EXCEPT !.draft_email = MergeEntities(d0, intent.entities)]
    IN  IF missing # <<>>
        THEN Ret(s2, _ask_for_missing_field(missing[1]))
        ELSE LET s3 == [s2 EXCEPT !.phase = WAITING_CONFIRMATION]
             IN  Ret(s3, _format_email_confirmation(s3))

_handle_send_email(s, intent, env) ==
    LET s1 == [s EXCEPT !.phase = COLLECTING_INFO, !.current_intent = SEND_EMAIL]
        d0 == IF s1.draft_email = NoneDraft THEN EmailDraft ELSE s1.draft_email
        s2 == [s1 EXCEPT !.draft_email = MergeEntities(d0, intent.entities)]
        missing == _get_missing_email_fields(s2)
    IN  IF missing # <<>>
        THEN Ret(s2, _ask_for_missing_field(missing[1]))
        ELSE LET s3 == [s2 EXCEPT !.phase = WAITING_CONFIRMATION]
             IN  Ret(s3, _format_email_confirmation(s3))

\* a read handler that inlines every email it got
_handle_read_email_inlines_all(s, intent, env) ==
    LET s1 == [s EXCEPT !.phase = PROCESSING, !.current_intent = READ_EMAIL]
        count == IF TruthyDict(intent.entities)
                 THEN Get(intent.entities, "count", DefaultReadCount)
                 ELSE DefaultReadCount
        emails == email_service_read_recent_emails(count, env.nylas_read)
        called == [Ret(s1, Say("none")) EXCEPT
                     !.reads = <<[limit |-> count, returned |-> Len(emails),
                                   failed |-> env.nylas_read.raises]>>]
    IN  IF emails = <<>>
        THEN [called EXCEPT !.response = Say("no_new_emails")]
        ELSE [called EXCEPT
                !.state = [s1 EXCEPT !.phase = IDLE],
                !.response = [kind |-> "read_summary",
                              count |-> Len(emails),
                              inlined |-> emails,
                              more |-> <<>>]]

_handle_read_email(s, intent, env) ==
    LET s1 == [s EXCEPT !.phase = PROCESSING, !.current_intent = READ_EMAIL]
        count == IF TruthyDict(intent.entities)
                 THEN Get(intent.entities, "count", DefaultReadCount)
                 ELSE DefaultReadCount
        emails == email_service_read_recent_emails(count, env.nylas_read)
        called == [Ret(s1, Say("none")) EXCEPT
                     !.reads = <<[limit |-> count, returned |-> Len(emails),
                                   failed |-> env.nylas_read.raises]>>]
    IN  IF env.email_service = "raises"
        THEN [Ret([s1 EXCEPT !.phase = IDLE], Say("read_error"))
                EXCEPT !.reads = <<[limit |-> count, returned |-> 0,
                                    failed |-> env.nylas_read.raises]>>,
                       !.raised = <<"email_service">>]
        ELSE IF emails = <<>>
        THEN [called EXCEPT !.response = Say("no_new_emails")]
        ELSE [called EXCEPT
                !.state = [s1 EXCEPT !.phase = IDLE],
                !.response =
                    [kind |-> "read_summary",
                     count |-> Len(emails),
                     inlined |-> SubSeq(emails, 1, Min(Len(emails), ReadInlineLimit)),
                     more |-> IF Len(emails) > ReadInlineLimit
                              THEN <<Len(emails) - ReadInlineLimit>> ELSE <<>>]]

\* a search handler that, like the read handler, returns on an empty result
\* before it leaves PROCESSING
_handle_search_email_stays_processing(s, intent, env) ==
    LET s1 == [s EXCEPT !.phase = PROCESSING, !.current_intent = SEARCH_EMAIL]
        query == IF TruthyDict(intent.entities)
                 THEN Get(intent.entities, "query", <<>>)
                 ELSE <<>>
    IN  IF ~Truthy(query)
        THEN Ret([s1 EXCEPT !.phase = COLLECTING_INFO], Say("ask_search_query"))
        ELSE LET field == Get(intent.entities, "field", "all")
                 results == email_service_search_emails(query, field, env.nylas_search)
                 s2 == IF results = <<>> THEN s1 ELSE [s1 EXCEPT !.phase = IDLE]
                 called == [Ret(s2, Say("none")) EXCEPT
                              !.searches = <<[query |-> query, field |-> field,
                                              returned |-> Len(results)]>>]
             IN  IF env.email_service = "raises"
                 THEN [Ret(s2, Say("search_error"))
                         EXCEPT !.searches = <<[query |-> query, field |-> field,
                                                returned |-> 0]>>,
                                !.raised = <<"email_service">>]
                 ELSE IF results = <<>>
                 THEN [called EXCEPT
                         !.response = [kind |-> "search_none", query |-> query]]
                 ELSE [called EXCEPT
                         !.response =
                            [kind |-> "search_summary",
                             query |-> query,
                             count |-> Len(results),
                             inlined |-> SubSeq(results, 1,
                                                Min(Len(results), SearchInlineLimit)),
                             more |-> IF Len(results) > SearchInlineLimit
                                      THEN <<Len(results) - SearchInlineLimit>>
                                      ELSE <<>>]]

_handle_search_email(s, intent, env) ==
    LET s1 == [s EXCEPT !.phase = PROCESSING, !.current_intent = SEARCH_EMAIL]
        query == IF TruthyDict(intent.entities)
                 THEN Get(intent.entities, "query", <<>>)
                 ELSE <<>>
    IN  IF ~Truthy(query)
        THEN Ret([s1 EXCEPT !.phase = COLLECTING_INFO], Say("ask_search_query"))
        ELSE LET field == Get(intent.entities, "field", "all")
                 results == email_service_search_emails(query, field, env.nylas_search)
                 s2 == [s1 EXCEPT !.phase = IDLE]
                 called == [Ret(s2, Say("none")) EXCEPT
                              !.searches = <<[query |-> query, field |-> field,
                                              returned |-> Len(results)]>>]
             IN  IF env.email_service = "raises"
                 THEN [Ret(s2, Say("search_error"))
                         EXCEPT !.searches = <<[query |-> query, field |-> field,
                                                returned |-> 0]>>,
                                !.raised = <<"email_service">>]
                 ELSE IF results = <<>>
                 THEN [called EXCEPT
                         !.response = [kind |-> "search_none", query |-> query]]
                 ELSE [called EXCEPT
                         !.response =
                            [kind |-> "search_summary",
                             query |-> query,
                             count |-> Len(results),
                             inlined |-> SubSeq(results, 1,
                                                Min(Len(results), SearchInlineLimit)),
                             more |-> IF Len(results) > SearchInlineLimit
                                      THEN <<Len(results) - SearchInlineLimit>>
                                      ELSE <<>>]]

_handle_reply_email(s, intent, env) == Ret(s, Say("reply_coming_soon"))

\* Lines 202-218.  send_email never raises (it returns an EmailResponse,
\* which is not looked at).  After reset() draft_email is None, so reading
\* draft_email.recipient for the success message raises AttributeError
\* inside the try block and the except branch runs.
\* a confirmation that sends and then leaves the state as it was
_handle_confirmation_no_reset(s, intent, env) ==
    IF s.phase # WAITING_CONFIRMATION
    THEN Ret(s, Say("not_sure_what_confirming"))
    ELSE IF s.current_intent = SEND_EMAIL /\ s.draft_email # NoneDraft
    THEN LET request == EmailRequest(s.draft_email.recipient,
                                     s.draft_email.subject,
                                     s.draft_email.body)
             result == email_service_send_email(request, env.nylas_send)
         IN  [Ret(s, [kind |-> "sent", recipient |-> s.draft_email.recipient])
                 EXCEPT !.sent = <<[request |-> request, result |-> result]>>]
    ELSE Ret(s, Say("not_sure_what_to_confirm"))

\* a confirmation whose except clause leaves the phase as it is
_handle_confirmation_stays_waiting(s, intent, env) ==
    IF s.phase # WAITING_CONFIRMATION
    THEN Ret(s, Say("not_sure_what_confirming"))
    ELSE IF s.current_intent = SEND_EMAIL /\ s.draft_email # NoneDraft
    THEN LET request == EmailRequest(s.draft_email.recipient,
                                     s.draft_email.subject,
                                     s.draft_email.body)
             result == email_service_send_email(request, env.nylas_send)
             s1 == reset(s)
         IN  IF env.email_service = "raises"
             THEN [Ret(s, Say("send_error"))
                     EXCEPT !.sent = <<[request |-> request, result |-> None]>>,
                            !.raised = <<"email_service">>]
             ELSE IF s1.draft_email = NoneDraft
             THEN [Ret([s1 EXCEPT !.phase = IDLE], Say("send_error"))
                     EXCEPT !.sent = <<[request |-> request, result |-> result]>>,
                            !.raised = <<"handler">>]
             ELSE [Ret(s1, [kind |-> "sent", recipient |-> s1.draft_email.recipient])
                     EXCEPT !.sent = <<[request |-> request, result |-> result]>>]
    ELSE Ret(s, Say("not_sure_what_to_confirm"))

_handle_confirmation(s, intent, env) ==
    IF s.phase # WAITING_CONFIRMATION
    THEN Ret(s, Say("not_sure_what_confirming"))
    ELSE IF s.current_intent = SEND_EMAIL /\ s.draft_email # NoneDraft
    THEN LET request == EmailRequest(s.draft_email.recipient,
                                     s.draft_email.subject,
                                     s.draft_email.body)
             result == email_service_send_email(request, env.nylas_send)
             s1 == reset(s)
         IN  IF env.email_service = "raises"
             THEN [Ret([s EXCEPT !.phase = IDLE], Say("send_error"))
                     EXCEPT !.sent = <<[request |-> request, result |-> None]>>,
                            !.raised = <<"email_service">>]
             ELSE IF s1.draft_email = NoneDraft
             THEN [Ret([s1 EXCEPT !.phase = IDLE], Say("send_error"))
                     EXCEPT !.sent = <<[request |-> request, result |-> result]>>,
                            !.raised = <<"handler">>]
             ELSE [Ret(s1, [kind |-> "sent", recipient |-> s1.draft_email.recipient])
                     EXCEPT !.sent = <<[request |-> request, result |-> result]>>]
    ELSE Ret(s, Say("not_sure_what_to_confirm"))

\* a cancel that resets whatever the phase
_handle_cancel_always(s, intent, env) ==
    LET previous_intent == s.current_intent
    IN  Ret(reset(s),
            [kind |-> "cancelled",
             what |-> IF previous_intent # None
                      THEN previous_intent ELSE "current operation"])

\* a cancel that looks up the current intent after the reset
_handle_cancel_resets_first(s, intent, env) ==
    IF s.phase = IDLE
    THEN Ret(s, Say("nothing_to_cancel"))
    ELSE LET previous_intent == reset(s).current_intent
         IN  Ret(reset(s),
                 [kind |-> "cancelled",
                  what |-> IF previous_intent # None
                           THEN previous_intent ELSE "current operation"])

_handle_cancel(s, intent, env) ==
    IF s.phase = IDLE
    THEN Ret(s, Say("nothing_to_cancel"))
    ELSE LET previous_intent == s.current_intent
         IN  Ret(reset(s),
                 [kind |-> "cancelled",
                  what |-> IF previous_intent # None
                           THEN previous_intent ELSE "current operation"])

\* a help handler that forgets the draft
_handle_help_drops_draft(s, intent, env) ==
    Ret([s EXCEPT !.draft_email = NoneDraft], Say("help"))

_handle_help(s, intent, env) == Ret(s, Say("help"))

\* an unclear handler that never looks at what is being collected
_handle_unclear_generic(s, intent, env) == Ret(s, Say("did_not_understand"))

_handle_unclear(s, intent, env) ==
    LET missing == _get_missing_email_fields(s)
    IN  IF /\ s.phase = COLLECTING_INFO
           /\ s.current_intent = SEND_EMAIL
           /\ missing # <<>>
        THEN Ret(s, _ask_for_missing_field(missing[1]))
        ELSE Ret(s, Say("did_not_understand"))

\* a correction that takes the turn's entities into the draft
_handle_email_correction_merges(s, text, intent) ==
    Ret([s EXCEPT !.phase = COLLECTING_INFO,
                  !.draft_email = MergeEntities(s.draft_email, intent.entities)],
        Say("what_to_change_field"))

_handle_email_correction(s, text, intent) ==
    Ret([s EXCEPT !.phase = COLLECTING_INFO], Say("what_to_change_field"))

(***************************************************************************)
(* Python str operations, on character sequences                           *)
(***************************************************************************)
LowerLetters == <<"a", "b", "c", "d", "e", "f", "g", "h", "i", "j", "k", "l", "m", "n", "o", "p", "q", "r", "s", "t", "u", "v", "w", "x", "y", "z">>
UpperLetters == <<"A", "B", "C", "D", "E", "F", "G", "H", "I", "J", "K", "L", "M", "N", "O", "P", "Q", "R", "S", "T", "U", "V", "W", "X", "Y", "Z">>
Digits == <<"0", "1", "2", "3", "4", "5", "6", "7", "8", "9">>

Range(f) == {f[i] : i \in DOMAIN f}

lower_char(c) ==
    IF \E i \in 1..Len(UpperLetters) : UpperLetters[i] = c
    THEN LowerLetters[CHOOSE i \in 1..Len(UpperLetters) : UpperLetters[i] = c]
    ELSE c

\* str.lower()
lower(t) == [i \in 1..Len(t) |-> lower_char(t[i])]

SpaceChars == {" ", "\t", "\n"}
IsSpace(c) == c \in SpaceChars

\* \w
WordChars == Range(LowerLetters) \cup Range(UpperLetters) \cup Range(Digits) \cup {"_"}
IsWordChar(c) == c \in WordChars

\* str.strip()
strip(t) ==
    LET keep == {i \in 1..Len(t) : ~IsSpace(t[i])}
    IN  IF keep = {}
        THEN <<>>
        ELSE SubSeq(t, CHOOSE i \in keep : \A j \in keep : i <= j,
                       CHOOSE i \in keep : \A j \in keep : i >= j)

\* t[i:] starts with w
StartsAt(t, i, w) == i >= 1 /\ i + Len(w) - 1 <= Len(t) /\ SubSeq(t, i, i + Len(w) - 1) = w

\* w in t
contains(t, w) == \E i \in 1..(Len(t) + 1) : StartsAt(t, i, w)

(***************************************************************************)
(* Regular expressions.  A pattern is a tree; re_ends(p, t, I) is the set  *)
(* of positions where a match of p that starts at a position of I can end. *)
(***************************************************************************)
InClass(c, cls) ==
    CASE cls = "s" -> IsSpace(c)
      [] cls = "w" -> IsWordChar(c)
      [] cls = "any" -> c # "\n"
      [] cls = "end" -> IsSpace(c) \/ c \in {".", "!"}

WordAt(t, i) == i >= 1 /\ i <= Len(t) /\ IsWordChar(t[i])

\* \b between t[i-1] and t[i]
Boundary(t, i) == WordAt(t, i - 1) # WordAt(t, i)

RECURSIVE re_ends(_, _, _)
re_ends(p, t, I) ==
    CASE p.op = "lit" -> {i + Len(p.s) : i \in {k \in I : StartsAt(t, k, p.s)}}
      [] p.op = "alt" -> UNION {re_ends(p.ps[n], t, I) : n \in 1..Len(p.ps)}
      [] p.op = "seq" ->
            IF Len(p.ps) = 0
            THEN I
            ELSE re_ends([op |-> "seq", ps |-> Tail(p.ps)], t, re_ends(Head(p.ps), t, I))
      [] p.op = "opt" -> I \cup re_ends(p.p, t, I)
      [] p.op = "plus" ->
            {j \in 2..(Len(t) + 1) :
                \E i \in I : i < j /\ \A k \in i..(j - 1) : InClass(t[k], p.cls)}
      [] p.op = "star" ->
            {j \in 1..(Len(t) + 1) :
                \E i \in I : i <= j /\ \A k \in i..(j - 1) : InClass(t[k], p.cls)}
      [] p.op = "b" -> {i \in I : Boundary(t, i)}
      [] p.op = "bol" -> I \cap {1}
      [] p.op = "eol" -> I \cap {Len(t) + 1}

\* re.search(p, t) is not None
re_search(p, t) == re_ends(p, t, 1..(Len(t) + 1)) # {}

(***************************************************************************)
(* IntentRecognitionService.intent_patterns, in table order                *)
(***************************************************************************)
\* \b(?:send|write|compose)\s+(?:an?\s+)?email\b
SendPattern1 ==
    [op |-> "seq", ps |-> <<[op |-> "b"],
          [op |-> "alt", ps |-> <<[op |-> "lit", s |-> <<"s", "e", "n", "d">>], [op |-> "lit", s |-> <<"w", "r", "i", "t", "e">>], [op |-> "lit", s |-> <<"c", "o", "m", "p", "o", "s", "e">>]>>],
          [op |-> "plus", cls |-> "s"],
          [op |-> "opt", p |-> [op |-> "seq", ps |-> <<[op |-> "alt", ps |-> <<[op |-> "lit", s |-> <<"a", "n">>], [op |-> "lit", s |-> <<"a">>]>>],
          [op |-> "plus", cls |-> "s"]>>]],
          [op |-> "lit", s |-> <<"e", "m", "a", "i", "l">>],
          [op |-> "b"]>>]

\* \bemail\s+(?:to\s+)?\w+
SendPattern2 ==
    [op |-> "seq", ps |-> <<[op |-> "b"],
          [op |-> "lit", s |-> <<"e", "m", "a", "i", "l">>],
          [op |-> "plus", cls |-> "s"],
          [op |-> "opt", p |-> [op |-> "seq", ps |-> <<[op |-> "lit", s |-> <<"t", "o">>],
          [op |-> "plus", cls |-> "s"]>>]],
          [op |-> "plus", cls |-> "w"]>>]

\* \b(?:send|write)\s+(?:a\s+)?message\b
SendPattern3 ==
    [op |-> "seq", ps |-> <<[op |-> "b"],
          [op |-> "alt", ps |-> <<[op |-> "lit", s |-> <<"s", "e", "n", "d">>], [op |-> "lit", s |-> <<"w", "r", "i", "t", "e">>]>>],
          [op |-> "plus", cls |-> "s"],
          [op |-> "opt", p |-> [op |-> "seq", ps |-> <<[op |-> "lit", s |-> <<"a">>],
          [op |-> "plus", cls |-> "s"]>>]],
          [op |-> "lit", s |-> <<"m", "e", "s", "s", "a", "g", "e">>],
          [op |-> "b"]>>]

\* \b(?:read|check|show)\s+(?:my\s+)?(?:email|inbox|messages)\b
ReadPattern1 ==
    [op |-> "seq", ps |-> <<[op |-> "b"],
          [op |-> "alt", ps |-> <<[op |-> "lit", s |-> <<"r", "e", "a", "d">>], [op |-> "lit", s |-> <<"c", "h", "e", "c", "k">>], [op |-> "lit", s |-> <<"s", "h", "o", "w">>]>>],
          [op |-> "plus", cls |-> "s"],
          [op |-> "opt", p |-> [op |-> "seq", ps |-> <<[op |-> "lit", s |-> <<"m", "y">>],
          [op |-> "plus", cls |-> "s"]>>]],
          [op |-> "alt", ps |-> <<[op |-> "lit", s |-> <<"e", "m", "a", "i", "l">>], [op |-> "lit", s |-> <<"i", "n", "b", "o", "x">>], [op |-> "lit", s |-> <<"m", "e", "s", "s", "a", "g", "e", "s">>]>>],
          [op |-> "b"]>>]

\* \b(?:any|new)\s+(?:email|messages)\b
ReadPattern2 ==
    [op |-> "seq", ps |-> <<[op |-> "b"],
          [op |-> "alt", ps |-> <<[op |-> "lit", s |-> <<"a", "n", "y">>], [op |-> "lit", s |-> <<"n", "e", "w">>]>>],
          [op |-> "plus", cls |-> "s"],
          [op |-> "alt", ps |-> <<[op |-> "lit", s |-> <<"e", "m", "a", "i", "l">>], [op |-> "lit", s |-> <<"m", "e", "s", "s", "a", "g", "e", "s">>]>>],
          [op |-> "b"]>>]

\* \bwhat\'?s?\s+in\s+my\s+inbox\b
ReadPattern3 ==
    [op |-> "seq", ps |-> <<[op |-> "b"],
          [op |-> "lit", s |-> <<"w", "h", "a", "t">>],
          [op |-> "opt", p |-> [op |-> "lit", s |-> <<"'">>]],
          [op |-> "opt", p |-> [op |-> "lit", s |-> <<"s">>]],
          [op |-> "plus", cls |-> "s"],
          [op |-> "lit", s |-> <<"i", "n">>],
          [op |-> "plus", cls |-> "s"],
          [op |-> "lit", s |-> <<"m", "y">>],
          [op |-> "plus", cls |-> "s"],
          [op |-> "lit", s |-> <<"i", "n", "b", "o", "x">>],
          [op |-> "b"]>>]

\* \b(?:search|find|look)\s+(?:for\s+)?.+
SearchPattern1 ==
    [op |-> "seq", ps |-> <<[op |-> "b"],
          [op |-> "alt", ps |-> <<[op |-> "lit", s |-> <<"s", "e", "a", "r", "c", "h">>], [op |-> "lit", s |-> <<"f", "i", "n", "d">>], [op |-> "lit", s |-> <<"l", "o", "o", "k">>]>>],
          [op |-> "plus", cls |-> "s"],
          [op |-> "opt", p |-> [op |-> "seq", ps |-> <<[op |-> "lit", s |-> <<"f", "o", "r">>],
          [op |-> "plus", cls |-> "s"]>>]],
          [op |-> "plus", cls |-> "any"]>>]

\* \bwhere\s+(?:is|are)\s+.+\s+email
SearchPattern2 ==
    [op |-> "seq", ps |-> <<[op |-> "b"],
          [op |-> "lit", s |-> <<"w", "h", "e", "r", "e">>],
          [op |-> "plus", cls |-> "s"],
          [op |-> "alt", ps |-> <<[op |-> "lit", s |-> <<"i", "s">>], [op |-> "lit", s |-> <<"a", "r", "e">>]>>],
          [op |-> "plus", cls |-> "s"],
          [op |-> "plus", cls |-> "any"],
          [op |-> "plus", cls |-> "s"],
          [op |-> "lit", s |-> <<"e", "m", "a", "i", "l">>]>>]

\* \breply\s+(?:to\s+)?(?:this|that|the)?\s*email\b
ReplyPattern1 ==
    [op |-> "seq", ps |-> <<[op |-> "b"],
          [op |-> "lit", s |-> <<"r", "e", "p", "l", "y">>],
          [op |-> "plus", cls |-> "s"],
          [op |-> "opt", p |-> [op |-> "seq", ps |-> <<[op |-> "lit", s |-> <<"t", "o">>],
          [op |-> "plus", cls |-> "s"]>>]],
          [op |-> "opt", p |-> [op |-> "alt", ps |-> <<[op |-> "lit", s |-> <<"t", "h", "i", "s">>], [op |-> "lit", s |-> <<"t", "h", "a", "t">>], [op |-> "lit", s |-> <<"t", "h", "e">>]>>]],
          [op |-> "star", cls |-> "s"],
          [op |-> "lit", s |-> <<"e", "m", "a", "i", "l">>],
          [op |-> "b"]>>]

\* \brespond\s+to\s+(?:this|that|the)?\s*email\b
ReplyPattern2 ==
    [op |-> "seq", ps |-> <<[op |-> "b"],
          [op |-> "lit", s |-> <<"r", "e", "s", "p", "o", "n", "d">>],
          [op |-> "plus", cls |-> "s"],
          [op |-> "lit", s |-> <<"t", "o">>],
          [op |-> "plus", cls |-> "s"],
          [op |-> "opt", p |-> [op |-> "alt", ps |-> <<[op |-> "lit", s |-> <<"t", "h", "i", "s">>], [op |-> "lit", s |-> <<"t", "h", "a", "t">>], [op |-> "lit", s |-> <<"t", "h", "e">>]>>]],
          [op |-> "star", cls |-> "s"],
          [op |-> "lit", s |-> <<"e", "m", "a", "i", "l">>],
          [op |-> "b"]>>]

\* ^(?:yes|yeah|yep|sure|correct|right|confirm|send it|go ahead|ok|okay)[\s\.!]*$
ConfirmPattern ==
    [op |-> "seq", ps |-> <<[op |-> "bol"],
          [op |-> "alt", ps |-> <<[op |-> "lit", s |-> <<"y", "e", "s">>], [op |-> "lit", s |-> <<"y", "e", "a", "h">>], [op |-> "lit", s |-> <<"y", "e", "p">>], [op |-> "lit", s |-> <<"s", "u", "r", "e">>], [op |-> "lit", s |-> <<"c", "o", "r", "r", "e", "c", "t">>], [op |-> "lit", s |-> <<"r", "i", "g", "h", "t">>], [op |-> "lit", s |-> <<"c", "o", "n", "f", "i", "r", "m">>], [op |-> "lit", s |-> <<"s", "e", "n", "d", " ", "i", "t">>], [op |-> "lit", s |-> <<"g", "o", " ", "a", "h", "e", "a", "d">>], [op |-> "lit", s |-> <<"o", "k">>], [op |-> "lit", s |-> <<"o", "k", "a", "y">>]>>],
          [op |-> "star", cls |-> "end"],
          [op |-> "eol"]>>]

\* ^(?:no|nope|cancel|stop|nevermind|forget it|abort)[\s\.!]*$
CancelPattern ==
    [op |-> "seq", ps |-> <<[op |-> "bol"],
          [op |-> "alt", ps |-> <<[op |-> "lit", s |-> <<"n", "o">>], [op |-> "lit", s |-> <<"n", "o", "p", "e">>], [op |-> "lit", s |-> <<"c", "a", "n", "c", "e", "l">>], [op |-> "lit", s |-> <<"s", "t", "o", "p">>], [op |-> "lit", s |-> <<"n", "e", "v", "e", "r", "m", "i", "n", "d">>], [op |-> "lit", s |-> <<"f", "o", "r", "g", "e", "t", " ", "i", "t">>], [op |-> "lit", s |-> <<"a", "b", "o", "r", "t">>]>>],
          [op |-> "star", cls |-> "end"],
          [op |-> "eol"]>>]

\* \bhelp\b
HelpPattern1 ==
    [op |-> "seq", ps |-> <<[op |-> "b"],
          [op |-> "lit", s |-> <<"h", "e", "l", "p">>],
          [op |-> "b"]>>]

\* \bwhat can you do\b
HelpPattern2 ==
    [op |-> "seq", ps |-> <<[op |-> "b"],
          [op |-> "lit", s |-> <<"w", "h", "a", "t", " ", "c", "a", "n", " ", "y", "o", "u", " ", "d", "o">>],
          [op |-> "b"]>>]

\* \b(?:show|list)\s+commands\b
HelpPattern3 ==
    [op |-> "seq", ps |-> <<[op |-> "b"],
          [op |-> "alt", ps |-> <<[op |-> "lit", s |-> <<"s", "h", "o", "w">>], [op |-> "lit", s |-> <<"l", "i", "s", "t">>]>>],
          [op |-> "plus", cls |-> "s"],
          [op |-> "lit", s |-> <<"c", "o", "m", "m", "a", "n", "d", "s">>],
          [op |-> "b"]>>]

intent_patterns ==
    <<[type |-> SEND_EMAIL, patterns |-> <<SendPattern1, SendPattern2, SendPattern3>>],
      [type |-> READ_EMAIL, patterns |-> <<ReadPattern1, ReadPattern2, ReadPattern3>>],
      [type |-> SEARCH_EMAIL, patterns |-> <<SearchPattern1, SearchPattern2>>],
      [type |-> REPLY_EMAIL, patterns |-> <<ReplyPattern1, ReplyPattern2>>],
      [type |-> CONFIRM, patterns |-> <<ConfirmPattern>>],
      [type |-> CANCEL, patterns |-> <<CancelPattern>>],
      [type |-> HELP, patterns |-> <<HelpPattern1, HelpPattern2, HelpPattern3>>]>>

(***************************************************************************)
(* IntentRecognitionService: rule-based entity extraction                  *)
(***************************************************************************)
Least(S) == CHOOSE i \in S : \A j \in S : i <= j
Greatest(S) == CHOOSE i \in S : \A j \in S : i >= j

IsAlnum(c) == c \in Range(LowerLetters) \cup Range(UpperLetters) \cup Range(Digits)
IsDigit(c) == c \in Range(Digits)

\* the end (exclusive) of the longest run of characters of chars from i
RunEnd(t, i, chars) ==
    Least({k \in i..(Len(t) + 1) : k = Len(t) + 1 \/ t[k] \notin chars})

\* [A-Za-z0-9._%+-]   [A-Za-z0-9.-]   [A-Z|a-z]
IsLocalChar(c) == IsAlnum(c) \/ c \in {".", "_", "%", "+", "-"}
IsDomainChar(c) == IsAlnum(c) \/ c \in {".", "-"}
IsTldChar(c) == c \in Range(LowerLetters) \cup Range(UpperLetters) \cup {"|"}
\* [:\s]
SubjectSepChars == {":"} \cup SpaceChars
IsSubjectSep(c) == c \in SubjectSepChars
IsAnyChar(c) == c # "\n"

\* the ends of the matches of
\* \b[A-Za-z0-9._%+-]+@[A-Za-z0-9.-]+\.[A-Z|a-z]{2,}\b that start at i
EmailAddressEnds(t, i) ==
    {e \in (i + 1)..(Len(t) + 1) :
        /\ Boundary(t, i)
        /\ Boundary(t, e)
        /\ \E a \in (i + 1)..(e - 1) : \E d \in (a + 2)..(e - 3) :
              /\ \A k \in i..(a - 1) : IsLocalChar(t[k])
              /\ t[a] = "@"
              /\ \A k \in (a + 1)..(d - 1) : IsDomainChar(t[k])
              /\ t[d] = "."
              /\ \A k \in (d + 1)..(e - 1) : IsTldChar(t[k])}

\* re.findall(email_pattern, text): the first address, as <<address>>, or <<>>
FirstEmailAddress(t) ==
    LET starts == {i \in 1..Len(t) : EmailAddressEnds(t, i) # {}}
    IN  IF starts = {}
        THEN <<>>
        ELSE LET i == Least(starts)
             IN  <<SubSeq(t, i, Greatest(EmailAddressEnds(t, i)) - 1)>>

\* re.search(r'to\s+(\w+(?:\s+\w+)?)', t): group 1 as <<group>>, or <<>>
ToPhrase(t) ==
    LET starts == {i \in 1..Len(t) :
                      /\ StartsAt(t, i, <<"t", "o">>)
                      /\ RunEnd(t, i + 2, SpaceChars) > i + 2
                      /\ WordAt(t, RunEnd(t, i + 2, SpaceChars))}
    IN  IF starts = {}
        THEN <<>>
        ELSE LET i == Least(starts)
                 w1 == RunEnd(t, i + 2, SpaceChars)
                 e1 == RunEnd(t, w1, WordChars)
                 w2 == RunEnd(t, e1, SpaceChars)
                 e2 == IF w2 > e1 /\ WordAt(t, w2) THEN RunEnd(t, w2, WordChars) ELSE e1
             IN  <<SubSeq(t, w1, e2 - 1)>>

\* where the group of (?:subject|about)[:\s]+(.+?)(?:\.|$) starts when the
\* keyword ends just before L: after the separators, or on the last one when
\* nothing follows them; 0 when there is no match
SubjectGroupStart(t, L) ==
    LET r == RunEnd(t, L, SubjectSepChars)
    IN  IF r = L THEN 0
        ELSE IF r <= Len(t) THEN r
        ELSE IF r - L >= 2 THEN Len(t)
        ELSE 0

\* re.search(subject_pattern, t): group 1 as <<group>>, or <<>>
SubjectPhrase(t) ==
    LET KeywordEnd(i) == IF StartsAt(t, i, <<"s", "u", "b", "j", "e", "c", "t">>) THEN i + Len(<<"s", "u", "b", "j", "e", "c", "t">>)
                         ELSE IF StartsAt(t, i, <<"a", "b", "o", "u", "t">>) THEN i + Len(<<"a", "b", "o", "u", "t">>)
                         ELSE 0
        starts == {i \in 1..Len(t) :
                      KeywordEnd(i) # 0 /\ SubjectGroupStart(t, KeywordEnd(i)) # 0}
    IN  IF starts = {}
        THEN <<>>
        ELSE LET g == SubjectGroupStart(t, KeywordEnd(Least(starts)))
                 e == Least({k \in (g + 1)..(Len(t) + 1) : k = Len(t) + 1 \/ t[k] = "."})
             IN  <<SubSeq(t, g, e - 1)>>

_extract_email_entities(text) ==
    LET text_lower == lower(text)
        emails == FirstEmailAddress(text)
        to_match == ToPhrase(text_lower)
        subject_match == SubjectPhrase(text_lower)
        has_recipient == \/ emails # <<>>
                         \/ to_match # <<>> /\ to_match[1] \notin {<<"e", "m", "a", "i", "l">>, <<"m", "e", "s", "s", "a", "g", "e">>, <<"m", "a", "i", "l">>}
        keys == (IF has_recipient THEN {"recipient"} ELSE {})
                \cup (IF subject_match # <<>> THEN {"subject"} ELSE {})
    IN  [k \in keys |->
            IF k = "recipient"
            THEN (IF emails # <<>> THEN emails[1] ELSE to_match[1])
            ELSE strip(subject_match[1])]

\* where the group of (?:search for|find|look for|where is|where are)\s+(.+)
\* starts when the trigger ends just before L; 0 when there is no match
SearchGroupStart(t, L) ==
    LET r == RunEnd(t, L, SpaceChars)
    IN  IF r = L THEN 0
        ELSE IF r <= Len(t) THEN r
        ELSE IF r - L >= 2 THEN Len(t)
        ELSE 0

SearchTriggers == <<<<"s", "e", "a", "r", "c", "h", " ", "f", "o", "r">>, <<"f", "i", "n", "d">>, <<"l", "o", "o", "k", " ", "f", "o", "r">>, <<"w", "h", "e", "r", "e", " ", "i", "s">>, <<"w", "h", "e", "r", "e", " ", "a", "r", "e">>>>

\* re.search(search_pattern, t): group 1 as <<group>>, or <<>>
SearchPhrase(t) ==
    LET GroupStarts(i) ==
            {SearchGroupStart(t, i + Len(SearchTriggers[n])) :
                n \in {m \in 1..Len(SearchTriggers) : StartsAt(t, i, SearchTriggers[m])}}
            \ {0}
        starts == {i \in 1..Len(t) : GroupStarts(i) # {}}
    IN  IF starts = {}
        THEN <<>>
        ELSE <<SubSeq(t, Least(GroupStarts(Least(starts))), Len(t))>>

_extract_search_entities(text) ==
    LET text_lower == lower(text)
        match == SearchPhrase(text_lower)
        field == IF contains(text_lower, <<"s", "u", "b", "j", "e", "c", "t">>) THEN "subject"
                 ELSE IF contains(text_lower, <<"f", "r", "o", "m">>) THEN "from"
                 ELSE IF contains(text_lower, <<"b", "o", "d", "y">>) THEN "body"
                 ELSE "all"
        keys == {"field"} \cup (IF match # <<>> THEN {"query"} ELSE {})
    IN  [k \in keys |-> IF k = "query" THEN strip(match[1]) ELSE field]

NumberWords == <<<<"o", "n", "e">>, <<"t", "w", "o">>, <<"t", "h", "r", "e", "e">>, <<"f", "o", "u", "r">>, <<"f", "i", "v", "e">>>>

RECURSIVE ParseInt(_)
\* int(digits)
ParseInt(ds) ==
    IF ds = <<>>
    THEN 0
    ELSE 10 * ParseInt(SubSeq(ds, 1, Len(ds) - 1))
         + (CHOOSE v \in 0..9 : Digits[v + 1] = ds[Len(ds)])

\* re.search(r'\b(\d+|one|two|three|four|five)\b', t): <<count>>, or <<>>
NumberPhrase(t) ==
    LET DigitsMatch(i) == /\ WordAt(t, i) /\ IsDigit(t[i])
                          /\ Boundary(t, i)
                          /\ Boundary(t, RunEnd(t, i, Range(Digits)))
        WordMatch(i) == {n \in 1..Len(NumberWords) :
                            /\ StartsAt(t, i, NumberWords[n])
                            /\ Boundary(t, i)
                            /\ Boundary(t, i + Len(NumberWords[n]))}
        starts == {i \in 1..Len(t) : DigitsMatch(i) \/ WordMatch(i) # {}}
    IN  IF starts = {}
        THEN <<>>
        ELSE LET i == Least(starts)
             IN  IF DigitsMatch(i)
                 THEN <<ParseInt(SubSeq(t, i, RunEnd(t, i, Range(Digits)) - 1))>>
                 ELSE <<Least(WordMatch(i))>>

_extract_read_entities(text) ==
    LET text_lower == lower(text)
        match == NumberPhrase(text_lower)
        filter == IF contains(text_lower, <<"u", "n", "r", "e", "a", "d">>) THEN "unread"
                  ELSE IF contains(text_lower, <<"t", "o", "d", "a", "y">>) THEN "today"
                  ELSE None
        keys == (IF match # <<>> THEN {"count"} ELSE {})
                \cup (IF filter # None THEN {"filter"} ELSE {})
    IN  [k \in keys |-> IF k = "count" THEN match[1] ELSE filter]

_extract_entities(text, intent_type) ==
    IF intent_type = SEND_EMAIL THEN _extract_email_entities(text)
    ELSE IF intent_type = SEARCH_EMAIL THEN _extract_search_entities(text)
    ELSE IF intent_type = READ_EMAIL THEN _extract_read_entities(text)
    ELSE EmptyDict

(***************************************************************************)
(* The utterances of the model                                             *)
(***************************************************************************)
TextYes == <<"y", "e", "s">>
TextNo == <<"n", "o">>
TextCancel == <<"c", "a", "n", "c", "e", "l">>
TextHmm == <<"h", "m", "m">>
TextHelp == <<"h", "e", "l", "p">>

Utterances == {TextYes, TextNo, TextCancel, TextHmm, TextHelp}

(***************************************************************************)
(* IntentRecognitionService: recognize_intent                              *)
(***************************************************************************)
\* None where an IntentClassification is expected
NoneClassification == [none |-> TRUE]

\* _ai_intent_recognition: the structured LLM call is an input of the turn,
\* ai = [raises |-> TRUE] or [raises |-> FALSE, intent, confidence, entities];
\* any exception of the call is caught and None is returned
_ai_intent_recognition(text, context, ai) ==
    IF ai.raises
    THEN NoneClassification
    ELSE [intent |-> ai.intent, confidence |-> ai.confidence, entities |-> ai.entities]

\* a context rule that gives the utterance to every empty field
_context_based_intent_fills_all(text, context) ==
    IF context.current_intent = SEND_EMAIL /\ context.draft_email # NoneDraft
    THEN LET d == context.draft_email
             key == {k \in {"recipient", "subject", "body"} : ~Truthy(d[k])}
         IN  UserIntent(SEND_EMAIL, ContextConfidence,
                        [k \in key |-> strip(text)], text)
    ELSE UserIntent(UNCLEAR, 0, NoneEntities, text)

\* a context rule that takes the utterance as the body once nothing is empty
_context_based_intent_takes_body(text, context) ==
    IF context.current_intent = SEND_EMAIL /\ context.draft_email # NoneDraft
    THEN LET d == context.draft_email
             key == IF ~Truthy(d.recipient) THEN {"recipient"}
                    ELSE IF ~Truthy(d.subject) THEN {"subject"}
                    ELSE {"body"}
         IN  UserIntent(SEND_EMAIL, ContextConfidence,
                        [k \in key |-> strip(text)], text)
    ELSE UserIntent(UNCLEAR, 0, NoneEntities, text)

\* a context rule that takes the utterance as the query of a pending search
_context_based_intent_takes_query(text, context) ==
    IF context.current_intent = SEND_EMAIL /\ context.draft_email # NoneDraft
    THEN LET d == context.draft_email
             key == IF ~Truthy(d.recipient) THEN {"recipient"}
                    ELSE IF ~Truthy(d.subject) THEN {"subject"}
                    ELSE IF ~Truthy(d.body) THEN {"body"}
                    ELSE {}
         IN  UserIntent(SEND_EMAIL, ContextConfidence,
                        [k \in key |-> strip(text)], text)
    ELSE IF context.current_intent = SEARCH_EMAIL
    THEN UserIntent(SEARCH_EMAIL, ContextConfidence,
                    [k \in {"query"} |-> strip(text)], text)
    ELSE UserIntent(UNCLEAR, 0, NoneEntities, text)

_context_based_intent(text, context) ==
    IF context.current_intent = SEND_EMAIL /\ context.draft_email # NoneDraft
    THEN LET d == context.draft_email
             key == IF ~Truthy(d.recipient) THEN {"recipient"}
                    ELSE IF ~Truthy(d.subject) THEN {"subject"}
                    ELSE IF ~Truthy(d.body) THEN {"body"}
                    ELSE {}
         IN  UserIntent(SEND_EMAIL, ContextConfidence,
                        [k \in key |-> strip(text)], text)
    ELSE UserIntent(UNCLEAR, 0, NoneEntities, text)

\* the table entries with a pattern that matches, in table order
MatchingEntries(text_lower) ==
    {n \in 1..Len(intent_patterns) :
        \E m \in 1..Len(intent_patterns[n].patterns) :
            re_search(intent_patterns[n].patterns[m], text_lower)}

\* MatchingEntries of the utterances of the model, evaluated once
MatchingEntriesOf == [t \in {strip(lower(u)) : u \in Utterances} |-> MatchingEntries(t)]

\* a pattern path that never looks at the context
_pattern_intent_recognition_no_context(text, context) ==
    LET text_lower == strip(lower(text))
        matching == MatchingEntries(text_lower)
    IN  IF matching # {}
        THEN LET intent_type == intent_patterns[Least(matching)].type
             IN  UserIntent(intent_type, PatternConfidence,
                            _extract_entities(text, intent_type), text)
        ELSE UserIntent(UNCLEAR, 0, NoneEntities, text)

_pattern_intent_recognition(text, context) ==
    LET text_lower == strip(lower(text))
        matching == IF text_lower \in DOMAIN MatchingEntriesOf
                    THEN MatchingEntriesOf[text_lower]
                    ELSE MatchingEntries(text_lower)
    IN  IF matching # {}
        THEN LET intent_type == intent_patterns[Least(matching)].type
             IN  UserIntent(intent_type, PatternConfidence,
                            _extract_entities(text, intent_type), text)
        ELSE IF context.phase = COLLECTING_INFO
        THEN _context_based_intent(text, context)
        ELSE UserIntent(UNCLEAR, 0, NoneEntities, text)

\* a threshold that accepts the classification at 0.7
recognize_intent_at_threshold(text, context, ai) ==
    LET intent_data == _ai_intent_recognition(text, context, ai)
    IN  IF intent_data # NoneClassification
           /\ intent_data.confidence >= AIConfidenceThreshold
        THEN UserIntent(intent_data.intent, intent_data.confidence,
                        intent_data.entities, text)
        ELSE _pattern_intent_recognition(text, context)

recognize_intent(text, context, ai) ==
    LET intent_data == _ai_intent_recognition(text, context, ai)
    IN  IF intent_data # NoneClassification
           /\ intent_data.confidence > AIConfidenceThreshold
        THEN UserIntent(intent_data.intent, intent_data.confidence,
                        intent_data.entities, text)
        ELSE _pattern_intent_recognition(text, context)

(***************************************************************************)
(* ConversationManager: the confirmation phase and process_user_input      *)
(***************************************************************************)
AffirmativeWords == <<<<"y", "e", "s">>, <<"y", "e", "a", "h">>, <<"y", "e", "p">>, <<"s", "u", "r", "e">>, <<"c", "o", "r", "r", "e", "c", "t">>, <<"r", "i", "g", "h", "t">>, <<"s", "e", "n", "d", " ", "i", "t">>>>
NegativeWords == <<<<"n", "o">>, <<"n", "o", "p", "e">>, <<"c", "a", "n", "c", "e", "l">>, <<"s", "t", "o", "p">>, <<"w", "a", "i", "t">>>>

\* any(word in text_lower for word in words)
AnyWordIn(words, text_lower) ==
    \E n \in 1..Len(words) : contains(text_lower, words[n])

\* a confirmation phase that treats a negative reply as a cancellation
_handle_confirmation_phase_cancels(s, text, intent, env) ==
    LET text_lower == lower(text)
    IN  IF AnyWordIn(AffirmativeWords, text_lower)
        THEN _handle_confirmation(s, intent, env)
        ELSE IF AnyWordIn(NegativeWords, text_lower)
        THEN _handle_cancel(s, intent, env)
        ELSE IF s.current_intent = SEND_EMAIL
        THEN _handle_email_correction(s, text, intent)
        ELSE Ret(s, Say("say_yes_or_no"))

_handle_confirmation_phase(s, text, intent, env) ==
    LET text_lower == lower(text)
    IN  IF AnyWordIn(AffirmativeWords, text_lower)
        THEN _handle_confirmation(s, intent, env)
        ELSE IF AnyWordIn(NegativeWords, text_lower)
        THEN Ret([s EXCEPT !.phase = COLLECTING_INFO], Say("what_to_change"))
        ELSE IF s.current_intent = SEND_EMAIL
        THEN _handle_email_correction(s, text, intent)
        ELSE Ret(s, Say("say_yes_or_no"))

\* a table whose default handler is the help handler
Handle_default_help(s, intent, env) ==
    CASE intent.type = SEND_EMAIL -> _handle_send_email(s, intent, env)
      [] intent.type = READ_EMAIL -> _handle_read_email(s, intent, env)
      [] intent.type = SEARCH_EMAIL -> _handle_search_email(s, intent, env)
      [] intent.type = REPLY_EMAIL -> _handle_reply_email(s, intent, env)
      [] intent.type = CONFIRM -> _handle_confirmation(s, intent, env)
      [] intent.type = CANCEL -> _handle_cancel(s, intent, env)
      [] intent.type = HELP -> _handle_help(s, intent, env)
      [] intent.type = UNCLEAR -> _handle_unclear(s, intent, env)
      [] OTHER -> _handle_help(s, intent, env)

\* intent_handlers.get(intent.type, self._handle_unclear)
Handle(s, intent, env) ==
    CASE intent.type = SEND_EMAIL -> _handle_send_email(s, intent, env)
      [] intent.type = READ_EMAIL -> _handle_read_email(s, intent, env)
      [] intent.type = SEARCH_EMAIL -> _handle_search_email(s, intent, env)
      [] intent.type = REPLY_EMAIL -> _handle_reply_email(s, intent, env)
      [] intent.type = CONFIRM -> _handle_confirmation(s, intent, env)
      [] intent.type = CANCEL -> _handle_cancel(s, intent, env)
      [] intent.type = HELP -> _handle_help(s, intent, env)
      [] intent.type = UNCLEAR -> _handle_unclear(s, intent, env)
      [] OTHER -> _handle_unclear(s, intent, env)

\* the content of a user message: what the user said
Utterance(text) == [kind |-> "utterance", text |-> text]

\* the turn got no intent: the intent service raised
NoIntent(text) == UserIntent(None, 0, NoneEntities, text)

\* a process_user_input that routes by the intent type in every phase
process_user_input_by_intent(s, text, env) ==
    LET s1 == add_message(s, "user", Utterance(text))
        intent == recognize_intent(text, s1, env.ai)
    IN  IF env.intent_service = "raises"
        THEN [res |-> [Ret(s1, Say("error_try_again"))
                         EXCEPT !.raised = <<"intent_service">>],
              intent |-> NoIntent(text),
              recorded |-> FALSE,
              propagated |-> FALSE]
        ELSE LET r == Handle(s1, intent, env)
             IN  [res |-> [r EXCEPT !.state = add_message(r.state, "assistant", r.response)],
                  intent |-> intent,
                  recorded |-> TRUE,
                  propagated |-> FALSE]

\* a process_user_input whose except clause marks the state with set_error
process_user_input_sets_error(s, text, env) ==
    LET s1 == add_message(s, "user", Utterance(text))
        intent == recognize_intent(text, s1, env.ai)
    IN  IF env.intent_service = "raises"
        THEN [res |-> [Ret(set_error(s1, "error"), Say("error_try_again"))
                         EXCEPT !.raised = <<"intent_service">>],
              intent |-> NoIntent(text),
              recorded |-> FALSE,
              propagated |-> FALSE]
        ELSE IF s1.phase = WAITING_CONFIRMATION
        THEN [res |-> _handle_confirmation_phase(s1, text, intent, env),
              intent |-> intent,
              recorded |-> FALSE,
              propagated |-> FALSE]
        ELSE LET r == Handle(s1, intent, env)
             IN  [res |-> [r EXCEPT !.state = add_message(r.state, "assistant", r.response)],
                  intent |-> intent,
                  recorded |-> TRUE,
                  propagated |-> FALSE]

\* a process_user_input without the except of lines 86-88
process_user_input_unguarded(s, text, env) ==
    LET s1 == add_message(s, "user", Utterance(text))
        intent == recognize_intent(text, s1, env.ai)
    IN  IF env.intent_service = "raises"
        THEN [res |-> [Ret(s1, Say("none"))
                         EXCEPT !.raised = <<"intent_service">>],
              intent |-> NoIntent(text),
              recorded |-> FALSE,
              propagated |-> TRUE]
        ELSE IF s1.phase = WAITING_CONFIRMATION
        THEN [res |-> _handle_confirmation_phase(s1, text, intent, env),
              intent |-> intent,
              recorded |-> FALSE,
              propagated |-> FALSE]
        ELSE LET r == Handle(s1, intent, env)
             IN  [res |-> [r EXCEPT !.state = add_message(r.state, "assistant", r.response)],
                  intent |-> intent,
                  recorded |-> TRUE,
                  propagated |-> FALSE]

\* the handler's result with the recognized intent and, when the manager
\* records it, the response appended to the history
\* propagated: an exception left process_user_input (the except of lines
\* 86-88 lets none through)
process_user_input(s, text, env) ==
    LET s1 == add_message(s, "user", Utterance(text))
        intent == recognize_intent(text, s1, env.ai)
    IN  IF env.intent_service = "raises"
        THEN [res |-> [Ret(s1, Say("error_try_again"))
                         EXCEPT !.raised = <<"intent_service">>],
              intent |-> NoIntent(text),
              recorded |-> FALSE,
              propagated |-> FALSE]
        ELSE IF s1.phase = WAITING_CONFIRMATION
        THEN [res |-> _handle_confirmation_phase(s1, text, intent, env),
              intent |-> intent,
              recorded |-> FALSE,
              propagated |-> FALSE]
        ELSE LET r == Handle(s1, intent, env)
             IN  [res |-> [r EXCEPT !.state = add_message(r.state, "assistant", r.response)],
                  intent |-> intent,
                  recorded |-> TRUE,
                  propagated |-> FALSE]

(***************************************************************************)
(* The inputs of a turn                                                    *)
(***************************************************************************)
RecipientA == <<"a", "@", "b", ".", "c", "o", "m">>
SubjectS == <<"S">>
BodyB == <<"B">>
QueryQ == <<"q">>

Texts == {TextYes, TextNo, TextCancel, TextHmm}

SendKeys == {"recipient", "subject", "body"}

FieldValue(k) ==
    IF k = "recipient" THEN RecipientA ELSE IF k = "subject" THEN SubjectS ELSE BodyB

\* the entities of a SendEmail classification: the fields of D, those of E
\* with the empty string
Entities(D, E) == [k \in D |-> IF k \in E THEN <<>> ELSE FieldValue(k)]

SendEntities ==
    {Entities(D, {}) : D \in {{}, {"recipient"}, {"subject"}, {"body"}, SendKeys}}
    \cup {Entities({"recipient"}, {"recipient"})}

ReadEntities == {EmptyDict}

SearchEntities == {EmptyDict, [query |-> QueryQ]}

ConfidenceHigh == 90

\* the structured LLM call: it raises, or it returns some classification
Classified(type, confidence, entities) ==
    [raises |-> FALSE, intent |-> type, confidence |-> confidence, entities |-> entities]

AIOutcomes ==
    {[raises |-> TRUE]}
    \cup {Classified(SEND_EMAIL, ConfidenceHigh, e) : e \in SendEntities}
    \cup {Classified(READ_EMAIL, ConfidenceHigh, e) : e \in ReadEntities}
    \cup {Classified(SEARCH_EMAIL, ConfidenceHigh, e) : e \in SearchEntities}
    \cup {Classified(t, ConfidenceHigh, EmptyDict) :
            t \in {REPLY_EMAIL, CONFIRM, CANCEL, HELP, UNCLEAR, GREETING}}

SendOutcomes == {"sent", "refused", "raises"}
ReadOutcomes == {[raises |-> TRUE, available |-> 0]}
                \cup {[raises |-> FALSE, available |-> n] : n \in {0, 5}}
SearchOutcomes == {[raises |-> TRUE, found |-> 0]}
                  \cup {[raises |-> FALSE, found |-> n] : n \in {0, 3}}

\* The collaborator outcomes a turn can observe: an outcome is enumerated
\* only for the collaborator the turn can call (send in the confirmation
\* phase, read and search for the intent of that type outside it)
TurnEnvs(s, text, ai) ==
    LET type == recognize_intent(text, s, ai).type
        waiting == s.phase = WAITING_CONFIRMATION
    IN  {[ai |-> ai, nylas_send |-> ns, nylas_read |-> nr, nylas_search |-> nq,
          intent_service |-> "returns", email_service |-> "returns"] :
            ns \in IF waiting THEN SendOutcomes ELSE {"sent"},
            nr \in IF ~waiting /\ type = READ_EMAIL
                   THEN ReadOutcomes ELSE {[raises |-> FALSE, available |-> 0]},
            nq \in IF ~waiting /\ type = SEARCH_EMAIL
                   THEN SearchOutcomes ELSE {[raises |-> FALSE, found |-> 0]}}

(***************************************************************************)
(* The session: finalized transcripts, then the disconnect                 *)
(***************************************************************************)
\* EmailAgentProcessor and the pipeline task as constructed: not busy, no
\* frame pushed downstream or queued, no client yet.  pushing holds the
\* responses of the invocations suspended in `await self.push_frame(...)`
EmailAgentProcessor ==
    [processing |-> FALSE,
     pushing |-> <<>>,
     pushed |-> <<>>,
     queued |-> <<>>,
     received |-> 0,
     frame |-> [kind |-> "none"],
     connected |-> FALSE,
     disconnected |-> FALSE,
     cancelled |-> FALSE]

\* room names: those a request's room_url can end with, and after them the
\* one Daily makes for each start_bot call that brings no room_url
Rooms == 1..(MaxRooms + MaxStartRequests)
StartCalls == 1..MaxStartRequests

\* BotManager.__init__: no active bot; no call has been made
BotManager ==
    [active_bots |-> [r \in Rooms |-> 0],
     starts |-> [c \in StartCalls |-> [pc |-> "none", room_name |-> 0, bot_token |-> FALSE]],
     bots |-> [c \in StartCalls |-> "none"],
     stopping |-> <<>>,
     stops |-> 0]

Init ==
    /\ state = ConversationState
    /\ last = [op |-> "init"]
    /\ added = <<>>
    /\ journal = <<>>
    /\ proc = EmailAgentProcessor
    /\ manager = BotManager

Turn(text, env) ==
    \E out \in {process_user_input(state, text, env)} :
        /\ state' = out.res.state
        /\ last' = [op |-> "turn",
                    pre |-> state,
                    text |-> text,
                    intent |-> out.intent,
                    response |-> out.res.response,
                    recorded |-> out.recorded,
                    sent |-> out.res.sent,
                    reads |-> out.res.reads,
                    searches |-> out.res.searches,
                    raised |-> out.res.raised,
                    propagated |-> out.propagated]
        /\ added' = added \o <<[role |-> "user", content |-> Utterance(text)]>>
                          \o (IF out.recorded
                              THEN <<[role |-> "assistant", content |-> out.res.response]>>
                              ELSE <<>>)
        /\ journal' = Append(journal, [intent |-> out.intent,
                                       phase |-> out.res.state.phase,
                                       draft |-> out.res.state.draft_email,
                                       raised |-> out.res.raised,
                                       sent |-> Len(out.res.sent)])

\* EmailAgentProcessor hands a finalized transcript to the manager
ProcessUserInput ==
    /\ last.op # "reset"
    /\ Len(journal) < MaxTurns
    /\ \E text \in Texts, ai \in AIOutcomes :
          \E env \in TurnEnvs(state, text, ai) : Turn(text, env)
    /\ UNCHANGED <<proc, manager>>

\* a disconnect handler that cancels the task without resetting the state
reset_conversation_skipped ==
    /\ state' = state
    /\ last' = [op |-> "reset", pre |-> state]
    /\ UNCHANGED manager
    /\ proc' = [proc EXCEPT !.disconnected = TRUE, !.cancelled = TRUE,
                            !.frame = [kind |-> "none"]]
    /\ UNCHANGED <<added, journal>>

\* the body of on_client_disconnected: reset_conversation(), then
\* task.cancel(); nothing is queued
reset_conversation_and_cancel ==
    /\ state' = reset(state)
    /\ last' = [op |-> "reset", pre |-> state]
    /\ UNCHANGED manager
    /\ proc' = [proc EXCEPT !.disconnected = TRUE, !.cancelled = TRUE,
                            !.frame = [kind |-> "none"]]
    /\ UNCHANGED <<added, journal>>

\* on_client_disconnected: after it the pipeline task is cancelled and no
\* transcript is processed any more
OnClientDisconnected ==
    /\ last.op = "turn"
    /\ reset_conversation_and_cancel

Next == ProcessUserInput \/ OnClientDisconnected

Spec == Init /\ [][Next]_vars

(***************************************************************************)
(* Slot filling: a session of SendEmail classifications that carry any of  *)
(* the three fields, or of failed classifications                          *)
(***************************************************************************)
SlotAIOutcomes ==
    {[raises |-> TRUE]}
    \cup {Classified(SEND_EMAIL, ConfidenceHigh, Entities(D, {})) : D \in SUBSET SendKeys}

SlotTurn ==
    /\ Len(journal) < MaxSlotTurns
    /\ \E ai \in SlotAIOutcomes :
          \E env \in TurnEnvs(state, TextHmm, ai) : Turn(TextHmm, env)
    /\ UNCHANGED <<proc, manager>>

SpecSlots == Init /\ [][SlotTurn]_vars

(***************************************************************************)
(* A long session, for the history: the utterance "hmm", classified as a   *)
(* complete SendEmail or not classified at all                             *)
(***************************************************************************)
LongAIOutcomes ==
    {[raises |-> TRUE], Classified(SEND_EMAIL, ConfidenceHigh, Entities(SendKeys, {}))}

LongTurn ==
    /\ Len(added) < MaxMessages
    /\ \E ai \in LongAIOutcomes :
          \E env \in TurnEnvs(state, TextHmm, ai) : Turn(TextHmm, env)
    /\ UNCHANGED <<proc, manager>>

SpecHistory == Init /\ [][LongTurn]_vars

(***************************************************************************)
(* The operations applied to any conversation state: recognize_intent,     *)
(* reset and a ReadEmail turn                                              *)
(***************************************************************************)
DrawnDrafts ==
    {NoneDraft,
     EmailDraft,
     [EmailDraft EXCEPT !.recipient = RecipientA],
     [recipient |-> RecipientA, subject |-> SubjectS, body |-> BodyB]}

DrawnSearchContexts ==
    {[id |-> None, query |-> NoneText, results |-> <<>>],
     [id |-> "id1", query |-> QueryQ, results |-> <<"id1">>]}

DrawnHistories ==
    {<<>>, <<[role |-> "user", content |-> Utterance(TextHelp)]>>}

DrawnStates ==
    {[phase |-> p,
      current_intent |-> ci,
      draft_email |-> d,
      current_email_id |-> c.id,
      last_search_query |-> c.query,
      last_search_results |-> c.results,
      conversation_history |-> h,
      last_error |-> e] :
        p \in ConversationPhase,
        ci \in {None, SEND_EMAIL, SEARCH_EMAIL},
        d \in DrawnDrafts,
        c \in DrawnSearchContexts,
        h \in DrawnHistories,
        e \in {None, "error"}}

InitDrawn ==
    /\ state \in DrawnStates
    /\ last = [op |-> "init"]
    /\ added = <<>>
    /\ journal = <<>>
    /\ proc = EmailAgentProcessor
    /\ manager = BotManager

\* the confidences a classification may carry, in hundredths
Confidences == {0, 69, 70, 71, 100}

GradedAIOutcomes ==
    {[raises |-> TRUE]}
    \cup {Classified(t, c, EmptyDict) : t \in {READ_EMAIL, CONFIRM}, c \in Confidences}

RecognizeIntent ==
    /\ last.op = "init"
    /\ \E text \in {TextYes, TextHmm, TextHelp}, ai \in GradedAIOutcomes :
          last' = [op |-> "recognize",
                   text |-> text,
                   ai |-> ai,
                   intent |-> recognize_intent(text, state, ai)]
    /\ UNCHANGED <<state, added, journal, proc, manager>>

Reset ==
    /\ last.op = "init"
    /\ state' = reset(state)
    /\ last' = [op |-> "reset", pre |-> state]
    /\ UNCHANGED <<added, journal, proc, manager>>

\* the counts a ReadEmail classification may ask for, and the mailbox sizes
CountedReadOutcomes ==
    {Classified(READ_EMAIL, ConfidenceHigh, e) :
        e \in {EmptyDict, [count |-> 2], [count |-> 5]}}

MailboxSizes == {0, 1, 3, 4, 5, 7}

\* the collaborators of one turn
TurnEnv(ai, email_service, nylas_read, nylas_search) ==
    [ai |-> ai,
     intent_service |-> "returns",
     email_service |-> email_service,
     nylas_send |-> "sent",
     nylas_read |-> nylas_read,
     nylas_search |-> nylas_search]

NoMail == [raises |-> FALSE, available |-> 0]
NoMatch == [raises |-> FALSE, found |-> 0]

\* turns classified ReadEmail over mailboxes of every size
ReadInputs ==
    {[text |-> TextHmm,
      env |-> TurnEnv(ai, "returns", [raises |-> FALSE, available |-> n], NoMatch)] :
        ai \in CountedReadOutcomes, n \in MailboxSizes}

\* the entities a SearchEmail classification may carry, the number of
\* matches in the mailbox, and a search that fails in the client or raises
\* from the service
QueriedSearchOutcomes ==
    {Classified(SEARCH_EMAIL, ConfidenceHigh, e) :
        e \in {EmptyDict, [query |-> <<>>], [query |-> QueryQ],
               [query |-> QueryQ, field |-> "subject"]}}

MatchCounts == {0, 1, 3}

SearchInputs ==
    {[text |-> TextHmm, env |-> TurnEnv(ai, e, NoMail, nq)] :
        ai \in QueriedSearchOutcomes,
        nq \in {[raises |-> TRUE, found |-> 0]}
               \cup {[raises |-> FALSE, found |-> n] : n \in MatchCounts},
        e \in {"returns", "raises"}}

\* a classification of every IntentType value, without entities
TypedAIOutcomes == {Classified(type, ConfidenceHigh, EmptyDict) : type \in IntentType}

DispatchInputs ==
    {[text |-> TextHmm, env |-> TurnEnv(ai, "returns", NoMail, NoMatch)] :
        ai \in TypedAIOutcomes}

\* replies to the confirmation prompt: "no, that's not right" has the
\* negative word "no" and the affirmative word "right"
TextNoNotRight == <<"n", "o", ",", " ", "t", "h", "a", "t", "'", "s", " ", "n", "o", "t", " ", "r", "i", "g", "h", "t">>
TextNoWait == <<"n", "o", " ", "w", "a", "i", "t">>

ReplyInputs(s) ==
    IF s.phase # WAITING_CONFIRMATION THEN {}
    ELSE {[text |-> text, env |-> TurnEnv(ai, "returns", NoMail, NoMatch)] :
            text \in {TextYes, TextNo, TextNoWait, TextNoNotRight},
            ai \in {Classified(type, ConfidenceHigh, EmptyDict) :
                      type \in {CONFIRM, CANCEL, UNCLEAR}}}

\* the AI path gives no usable classification: the call fails, or its
\* confidence is not above the threshold
UnusableAIOutcomes ==
    {[raises |-> TRUE], Classified(READ_EMAIL, ContextConfidence, EmptyDict)}

\* utterances while the bot is collecting, classified by the pattern path
FallbackInputs(s) ==
    IF s.phase # COLLECTING_INFO THEN {}
    ELSE {[text |-> text,
           env |-> TurnEnv(ai, "returns", NoMail, [raises |-> FALSE, found |-> 1])] :
            text \in {TextHmm, TextYes, TextHelp},
            ai \in UnusableAIOutcomes}

\* process_user_input on a drawn state
DrawnTurn ==
    /\ last.op = "init"
    /\ \E input \in ReadInputs \cup SearchInputs \cup DispatchInputs
                    \cup ReplyInputs(state) \cup FallbackInputs(state) :
          Turn(input.text, input.env)
    /\ UNCHANGED <<proc, manager>>

NextDrawn == RecognizeIntent \/ Reset \/ DrawnTurn

SpecDrawn == InitDrawn /\ [][NextDrawn]_vars

(***************************************************************************)
(* The frame processor: frames of every kind reach process_frame, also     *)
(* while an earlier invocation is suspended in push_frame; the client      *)
(* connects and disconnects                                                *)
(***************************************************************************)
TextPaddedHmm == <<" ", "h", "m", "m", " ">>
TextBlank == <<" ">>

\* a TranscriptionFrame with or without the is_final attribute
TranscriptionFrame(text, is_final) ==
    [kind |-> "transcription", text |-> text, is_final |-> is_final]

TTSSpeakFrame(response) == [kind |-> "tts", text |-> response]

Frames ==
    {TranscriptionFrame(TextYes, "absent"),
     TranscriptionFrame(TextPaddedHmm, "true"),
     TranscriptionFrame(TextBlank, "true"),
     TranscriptionFrame(TextYes, "false"),
     [kind |-> "interim", text |-> TextYes],
     [kind |-> "other"]}

\* a processor that takes every transcription frame for a finalized one
is_interim_never(frame) == FALSE

\* hasattr(frame, 'is_final') and not frame.is_final
is_interim(frame) == frame.is_final = "false"

\* a processor that never finds itself busy
_processing_never(p) == FALSE

\* if self._processing
_processing(p) == p.processing

WelcomeMessage == Say("welcome")
ProcessorErrorResponse == Say("error_repeat")

FrameAIOutcomes ==
    {Classified(SEND_EMAIL, ConfidenceHigh, Entities(SendKeys, {})),
     Classified(READ_EMAIL, ConfidenceHigh, EmptyDict),
     Classified(CONFIRM, ConfidenceHigh, EmptyDict)}

\* the services handed to the manager return or raise
FrameEnvs(s) ==
    {[ai |-> ai, nylas_send |-> ns, intent_service |-> i, email_service |-> e,
      nylas_read |-> [raises |-> FALSE, available |-> 0],
      nylas_search |-> [raises |-> FALSE, found |-> 0]] :
        ai \in FrameAIOutcomes,
        ns \in {"sent"},
        i \in {"returns", "raises"},
        e \in {"returns", "raises"}}

OnClientConnected ==
    /\ ~proc.connected
    /\ UNCHANGED manager
    /\ proc' = [proc EXCEPT !.connected = TRUE,
                            !.queued = Append(@, TTSSpeakFrame(WelcomeMessage)),
                            !.frame = [kind |-> "none"]]
    /\ last' = [op |-> "connected"]
    /\ UNCHANGED <<state, added, journal>>

\* push_frame(frame, direction) and return: the frame goes on unchanged
Forward(frame) ==
    /\ UNCHANGED manager
    /\ proc' = [proc EXCEPT !.pushed = Append(@, frame),
                            !.received = @ + 1,
                            !.frame = frame]
    /\ last' = [op |-> "frame", pre |-> state, calls |-> Len(journal),
                handling |-> "forwarded"]
    /\ UNCHANGED <<state, added, journal>>

\* an empty transcript that leaves the processor busy
Blank_stays_busy(frame) ==
    /\ UNCHANGED manager
    /\ proc' = [proc EXCEPT !.received = @ + 1, !.frame = frame, !.processing = TRUE]
    /\ last' = [op |-> "frame", pre |-> state, calls |-> Len(journal),
                handling |-> "blank"]
    /\ UNCHANGED <<state, added, journal>>

\* the guarded region with an empty transcript: nothing is called or pushed
\* and the finally clause releases the processor
Blank(frame) ==
    /\ UNCHANGED manager
    /\ proc' = [proc EXCEPT !.received = @ + 1, !.frame = frame, !.processing = FALSE]
    /\ last' = [op |-> "frame", pre |-> state, calls |-> Len(journal),
                handling |-> "blank"]
    /\ UNCHANGED <<state, added, journal>>

\* the guarded region up to its push_frame: the processor is busy, the turn
\* runs, and the invocation is suspended with the frame it is about to push
\* (the error response when process_user_input raised)
Handle_transcription(frame, user_text) ==
    \E env \in FrameEnvs(state) :
        /\ Turn(user_text, env)
        /\ UNCHANGED manager
        /\ proc' = [proc EXCEPT
                      !.received = @ + 1,
                      !.frame = frame,
                      !.processing = TRUE,
                      !.pushing = Append(@, IF last'.propagated
                                            THEN ProcessorErrorResponse
                                            ELSE last'.response)]

ProcessFrame ==
    /\ proc.connected
    /\ ~proc.cancelled
    /\ proc.received < MaxFrames
    /\ \E frame \in Frames :
          IF frame.kind # "transcription"
          THEN Forward(frame)
          ELSE IF is_interim(frame)
          THEN Forward(frame)
          ELSE IF _processing(proc)
          THEN Forward(frame)
          ELSE IF strip(frame.text) = <<>>
          THEN Blank(frame)
          ELSE Handle_transcription(frame, strip(frame.text))

\* a suspended push_frame resumes: the response goes downstream, or the push
\* raises and the error response goes downstream instead, or, once the task
\* is cancelled, the invocation is cancelled; the finally clause runs
CompletePush ==
    /\ proc.pushing # <<>>
    /\ \E i \in 1..Len(proc.pushing),
          outcome \in {"pushed", "raises"} \cup (IF proc.cancelled THEN {"cancelled"} ELSE {}) :
          /\ UNCHANGED manager
          /\ proc' = [proc EXCEPT
                        !.pushing = SubSeq(@, 1, i - 1) \o SubSeq(@, i + 1, Len(@)),
                        !.pushed = IF outcome = "pushed"
                                   THEN Append(@, TTSSpeakFrame(proc.pushing[i]))
                                   ELSE IF outcome = "raises"
                                   THEN Append(@, TTSSpeakFrame(ProcessorErrorResponse))
                                   ELSE @,
                        !.processing = FALSE,
                        !.frame = [kind |-> "none"]]
          /\ last' = [op |-> "pushed", outcome |-> outcome]
    /\ UNCHANGED <<state, added, journal>>

ClientDisconnected ==
    /\ proc.connected
    /\ ~proc.disconnected
    /\ reset_conversation_and_cancel

NextFrames == OnClientConnected \/ ProcessFrame \/ CompletePush \/ ClientDisconnected

SpecFrames == Init /\ [][NextFrames]_vars

(***************************************************************************)
(* BotManager (src/bot.py): start_bot and stop_bot are coroutines of the   *)
(* HTTP handlers; each runs until its next await, where any other          *)
(* coroutine may run.  create_room and create_token await an HTTP          *)
(* exchange.  _run_bot is a task of its own; it has no await before        *)
(* runner.run(task).                                                       *)
(*                                                                         *)
(* manager.active_bots[r] is the start_bot call whose BotInstance is       *)
(* registered for room r, 0 when r is not a key.  manager.bots[c] is the   *)
(* _run_bot task of call c: "scheduled" by create_task, "running" once     *)
(* bot_instance.task is set and the pipeline runs, "ended" after the       *)
(* finally clause.                                                         *)
(***************************************************************************)
\* request_data.get("room_url") is falsy
NoRoomUrl == 0

Unrelated == UNCHANGED <<state, last, added, journal, proc>>

\* self.active_bots without the key room_name
Deleted(active_bots, room_name) == [active_bots EXCEPT ![room_name] = 0]

\* the finally clause of _run_bot: the entry of the room is deleted if there
\* is one, whichever instance it holds
run_bot_finally(m, c) ==
    [m EXCEPT !.bots[c] = "ended",
              !.active_bots = Deleted(@, m.starts[c].room_name)]

\* start_bot from the check of active_bots to the first create_token
check_active_bots(c, room_name) ==
    IF manager.active_bots[room_name] # 0
    THEN manager' = [manager EXCEPT !.starts[c] = [@ EXCEPT !.pc = "rejected",
                                                          !.room_name = room_name]]
    ELSE manager' = [manager EXCEPT !.starts[c] = [@ EXCEPT !.pc = "bot_token",
                                                          !.room_name = room_name]]

\* a request reaches start_bot: without a room_url the call awaits
\* create_room; with one it goes on to the check
start_bot ==
    /\ \E c \in StartCalls :
          /\ manager.starts[c].pc = "none"
          /\ \A b \in 1..(c - 1) : manager.starts[b].pc # "none"
          /\ \E room_url \in {NoRoomUrl} \cup 1..MaxRooms :
                IF room_url = NoRoomUrl
                THEN manager' = [manager EXCEPT !.starts[c].pc = "create_room"]
                ELSE check_active_bots(c, room_url)
    /\ Unrelated

\* create_room returns None, or the data of a room no one else has
create_room_returns ==
    /\ \E c \in StartCalls :
          /\ manager.starts[c].pc = "create_room"
          /\ \E room_data \in {0, MaxRooms + c} :
                IF room_data = 0
                THEN manager' = [manager EXCEPT !.starts[c].pc = "failed"]
                ELSE check_active_bots(c, room_data)
    /\ Unrelated

\* create_token(room_name, is_owner=True) returns a token or None
bot_token_returns ==
    /\ \E c \in StartCalls, token \in BOOLEAN :
          /\ manager.starts[c].pc = "bot_token"
          /\ manager' = [manager EXCEPT !.starts[c] = [@ EXCEPT !.pc = "client_token",
                                                                !.bot_token = token]]
    /\ Unrelated

\* create_token(room_name, is_owner=False) returns: without both tokens the
\* call raises, with them the instance is registered and _run_bot scheduled
client_token_returns ==
    /\ \E c \in StartCalls, token \in BOOLEAN :
          /\ manager.starts[c].pc = "client_token"
          /\ IF ~manager.starts[c].bot_token \/ ~token
             THEN manager' = [manager EXCEPT !.starts[c].pc = "failed"]
             ELSE manager' = [manager EXCEPT
                                !.starts[c].pc = "returned",
                                !.active_bots[manager.starts[c].room_name] = c,
                                !.bots[c] = "scheduled"]
    /\ Unrelated

\* _run_bot up to runner.run(task): the pipeline is built and
\* bot_instance.task set, or building raises and the finally clause runs
run_bot_starts ==
    /\ \E c \in StartCalls, built \in BOOLEAN :
          /\ manager.bots[c] = "scheduled"
          /\ manager' = IF built
                        THEN [manager EXCEPT !.bots[c] = "running"]
                        ELSE run_bot_finally(manager, c)
    /\ Unrelated

\* runner.run(task) returns, raises or is cancelled; the finally clause runs
run_bot_ends ==
    /\ \E c \in StartCalls :
          /\ manager.bots[c] = "running"
          /\ manager' = run_bot_finally(manager, c)
    /\ Unrelated

\* stop_bot(room_name): raises for a room without entry; awaits
\* task.cancel() when the instance has its task; deletes the entry otherwise
stop_bot ==
    /\ manager.stops < MaxStopRequests
    /\ \E room_name \in 1..MaxRooms :
          LET c == manager.active_bots[room_name]
          IN  IF c = 0
              THEN manager' = [manager EXCEPT !.stops = @ + 1]
              ELSE IF manager.bots[c] = "running"
              THEN manager' = [manager EXCEPT !.stops = @ + 1,
                                              !.stopping = Append(@, room_name)]
              ELSE manager' = [manager EXCEPT !.stops = @ + 1,
                                              !.active_bots = Deleted(@, room_name)]
    /\ Unrelated

\* task.cancel() returns: del self.active_bots[room_name], a KeyError when
\* the finally clause of _run_bot was first
stop_bot_resumes ==
    /\ \E i \in 1..Len(manager.stopping) :
          manager' = [manager EXCEPT
                        !.stopping = SubSeq(@, 1, i - 1) \o SubSeq(@, i + 1, Len(@)),
                        !.active_bots = Deleted(@, manager.stopping[i])]
    /\ Unrelated

NextBots ==
    \/ start_bot
    \/ create_room_returns
    \/ bot_token_returns
    \/ client_token_returns
    \/ run_bot_starts
    \/ run_bot_ends
    \/ stop_bot
    \/ stop_bot_resumes

SpecBots == Init /\ [][NextBots]_vars

(***************************************************************************)
(* Properties                                                              *)
(***************************************************************************)
TurnDone == last.op = "turn"

\* the turn began in WAITING_CONFIRMATION with a complete draft and the
\* user said "yes"
ConfirmedSendTurn ==
    /\ TurnDone
    /\ last.pre.phase = WAITING_CONFIRMATION
    /\ last.pre.draft_email # NoneDraft
    /\ is_complete(last.pre.draft_email)
    /\ last.text = TextYes

\* C1: a "yes" in WaitingConfirmation with a complete draft calls the send
\* action exactly once, with the draft's recipient, subject and body; if the
\* send succeeds the turn ends in Idle with current_intent and draft cleared.
C1_ConfirmedSendOnce ==
    ConfirmedSendTurn =>
        /\ Len(last.sent) = 1
        /\ last.sent[1].request = EmailRequest(last.pre.draft_email.recipient,
                                               last.pre.draft_email.subject,
                                               last.pre.draft_email.body)
        /\ last.sent[1].result.success =>
              /\ state.phase = IDLE
              /\ state.current_intent = None
              /\ state.draft_email = NoneDraft

C1_Witness ==
    /\ ConfirmedSendTurn
    /\ Len(last.sent) = 1
    /\ last.sent[1].result.success
    /\ state.phase = IDLE

\* C2: at every turn boundary, phase WaitingConfirmation implies that
\* current_intent is set and, for a send, that the draft exists with
\* recipient, subject and body all non-empty.
C2_WaitingHasCompleteDraft ==
    state.phase = WAITING_CONFIRMATION =>
        /\ state.current_intent # None
        /\ state.current_intent = SEND_EMAIL =>
              /\ state.draft_email # NoneDraft
              /\ is_complete(state.draft_email)

C2_Witness ==
    /\ TurnDone
    /\ state.phase = WAITING_CONFIRMATION
    /\ state.current_intent = SEND_EMAIL

CollectingForSend ==
    state.phase = COLLECTING_INFO /\ state.current_intent = SEND_EMAIL

\* the conversation came back to CollectingInfo from WaitingConfirmation and
\* has stayed there since
BackFromConfirmation ==
    \E i \in 1..Len(journal) :
        /\ journal[i].phase = WAITING_CONFIRMATION
        /\ \A j \in (i + 1)..Len(journal) : journal[j].phase = COLLECTING_INFO

OneFieldTurn(i) ==
    LET e == journal[i].intent.entities
    IN  /\ journal[i].intent.type = SEND_EMAIL
        /\ Cardinality(DOMAIN e) = 1
        /\ DOMAIN e \subseteq SendKeys
        /\ \A k \in DOMAIN e : Truthy(e[k])

FieldOfTurn(i) == CHOOSE k \in DOMAIN journal[i].intent.entities : TRUE

\* the first three turns supplied the three fields, one each, in some order
ThreeOneFieldTurns ==
    /\ Len(journal) >= 3
    /\ \A i \in 1..3 : OneFieldTurn(i)
    /\ {FieldOfTurn(i) : i \in 1..3} = SendKeys

\* C4: from Idle, three SendEmail turns that each supply one of recipient,
\* subject and body, in any order, end with a complete draft in
\* WaitingConfirmation, and the phase is CollectingInfo after the first and
\* after the second.
C4_SlotFillingAnyOrder ==
    ThreeOneFieldTurns =>
        /\ journal[1].phase = COLLECTING_INFO
        /\ journal[2].phase = COLLECTING_INFO
        /\ journal[3].phase = WAITING_CONFIRMATION
        /\ journal[3].draft # NoneDraft
        /\ is_complete(journal[3].draft)

C4_Witness ==
    /\ ThreeOneFieldTurns
    /\ FieldOfTurn(1) = "body"
    /\ FieldOfTurn(2) = "recipient"
    /\ journal[3].phase = WAITING_CONFIRMATION
    /\ state.phase = WAITING_CONFIRMATION

\* the turn began in Idle and was a SendEmail turn whose entities carry
\* recipient, subject and body, all non-empty
CompleteSendTurn ==
    /\ TurnDone
    /\ last.pre.phase = IDLE
    /\ last.intent.type = SEND_EMAIL
    /\ SendKeys \subseteq DOMAIN last.intent.entities
    /\ \A k \in SendKeys : Truthy(last.intent.entities[k])

\* C5: one SendEmail turn with recipient, subject and body all non-empty
\* moves the conversation from Idle to WaitingConfirmation in that turn, and
\* the response is the confirmation prompt.
C5_CompleteSendConfirms ==
    CompleteSendTurn =>
        /\ state.phase = WAITING_CONFIRMATION
        /\ last.response.kind = "confirm_prompt"

C5_Witness ==
    /\ CompleteSendTurn
    /\ state.phase = WAITING_CONFIRMATION
    /\ last.response = [kind |-> "confirm_prompt", recipient |-> RecipientA,
                        subject |-> SubjectS, body |-> BodyB]

DeclinedTurn ==
    /\ TurnDone
    /\ last.pre.phase = WAITING_CONFIRMATION
    /\ last.text \in {TextNo, TextCancel}

\* C6: "no" or "cancel" in WaitingConfirmation ends the turn in
\* CollectingInfo, calls no send, and leaves draft and current_intent as they
\* were.
C6_DeclineKeepsDraft ==
    DeclinedTurn =>
        /\ state.phase = COLLECTING_INFO
        /\ last.sent = <<>>
        /\ state.draft_email = last.pre.draft_email
        /\ state.current_intent = last.pre.current_intent

C6_Witness ==
    /\ DeclinedTurn
    /\ last.text = TextCancel
    /\ state.phase = COLLECTING_INFO
    /\ state.draft_email # NoneDraft

\* the send of a confirmed send failed
FailedSendTurn ==
    /\ TurnDone
    /\ last.sent # <<>>
    /\ ~last.sent[1].result.success

\* C7: if the send fails during a confirmed send, the turn ends in Idle with
\* the send-error apology and the state is not reset: the draft is kept and
\* current_intent stays SendEmail.
C7_FailedSendKeepsDraft ==
    FailedSendTurn =>
        /\ state.phase = IDLE
        /\ last.response.kind = "send_error"
        /\ state.draft_email = last.pre.draft_email
        /\ state.current_intent = SEND_EMAIL

\* the turn read the inbox and got no email
EmptyReadTurn ==
    /\ TurnDone
    /\ last.reads # <<>>
    /\ last.reads[1].returned = 0

\* C8: a ReadEmail turn whose read returns no email gives the fixed "no new
\* emails" message and ends in Idle.
C8_EmptyReadEndsIdle ==
    EmptyReadTurn =>
        /\ last.response.kind = "no_new_emails"
        /\ state.phase = IDLE

CancelInIdleTurn ==
    /\ TurnDone
    /\ last.pre.phase = IDLE
    /\ last.intent.type = CANCEL

\* C9: a Cancel intent processed in Idle changes none of phase,
\* current_intent, draft and search context, and answers "nothing to cancel".
C9_CancelInIdleNoop ==
    CancelInIdleTurn =>
        /\ last.response.kind = "nothing_to_cancel"
        /\ state.phase = last.pre.phase
        /\ state.current_intent = last.pre.current_intent
        /\ state.draft_email = last.pre.draft_email
        /\ state.current_email_id = last.pre.current_email_id
        /\ state.last_search_query = last.pre.last_search_query
        /\ state.last_search_results = last.pre.last_search_results

C9_Witness ==
    /\ CancelInIdleTurn
    /\ last.pre.current_intent # None
    /\ last.response.kind = "nothing_to_cancel"

\* C10: after n messages the history holds at most 20 entries, and they are
\* the most recent min(n, 20) messages in the order they were added.
C10_HistoryIsLast20 ==
    LET n == Len(added)
        k == Min(n, 20)
    IN  /\ Len(state.conversation_history) <= 20
        /\ state.conversation_history = SubSeq(added, n - k + 1, n)

C10_Witness ==
    /\ Len(added) > 20
    /\ Len(state.conversation_history) = 20
    /\ state.conversation_history[1] = added[Len(added) - 19]

RecognizeDone == last.op = "recognize"

\* C11: an AI classification is the turn's intent only when its confidence
\* is strictly greater than 0.7; at exactly 0.7, at any lower confidence and
\* when the AI call fails, the result of the pattern path is returned.
C11_StrictThreshold ==
    RecognizeDone =>
        IF ~last.ai.raises /\ last.ai.confidence > 70
        THEN last.intent = UserIntent(last.ai.intent, last.ai.confidence,
                                      last.ai.entities, last.text)
        ELSE last.intent = _pattern_intent_recognition(last.text, state)

C11_Witness ==
    /\ RecognizeDone
    /\ ~last.ai.raises
    /\ last.ai.confidence = 70
    /\ last.ai.intent = READ_EMAIL
    /\ last.text = TextYes
    /\ last.intent.type = CONFIRM

\* neither the AI path nor the pattern table gave an intent
TotalFailure ==
    /\ RecognizeDone
    /\ last.ai.raises \/ last.ai.confidence <= 70
    /\ MatchingEntries(strip(lower(last.text))) = {}

CollectingDraft ==
    /\ state.phase = COLLECTING_INFO
    /\ state.current_intent = SEND_EMAIL
    /\ state.draft_email # NoneDraft

FirstEmptyField ==
    IF ~Truthy(state.draft_email.recipient) THEN {"recipient"}
    ELSE IF ~Truthy(state.draft_email.subject) THEN {"subject"}
    ELSE IF ~Truthy(state.draft_email.body) THEN {"body"}
    ELSE {}

Apologies == {"error_try_again", "send_error", "read_error", "search_error"}

\* C13: no turn propagates an exception: when the intent service, a handler
\* or the email service raised, the turn returned an apology, and once no
\* invocation is suspended the processor accepts transcripts again
C13_TurnNeverPropagates ==
    /\ TurnDone =>
          /\ ~last.propagated
          /\ last.raised # <<>> => last.response.kind \in Apologies
    /\ proc.pushing = <<>> => ~proc.processing

\* a turn was accepted and ran normally after a turn in which a service raised
C13_Witness ==
    /\ TurnDone
    /\ last.raised = <<>>
    /\ Len(journal) >= 2
    /\ journal[Len(journal) - 1].raised \in {<<"intent_service">>, <<"email_service">>}

\* C14: at most one invocation is inside the guarded region at any time, and
\* a turn that has just run is the only one in flight
C14_OneTurnAtATime ==
    /\ Len(proc.pushing) <= 1
    /\ proc.pushing # <<>> => proc.processing
    /\ TurnDone /\ proc.frame.kind = "transcription" => proc.pushing = <<last.response>>

\* a finalized transcript arrived while a turn was in flight and was passed on
C14_Witness ==
    /\ last.op = "frame"
    /\ last.handling = "forwarded"
    /\ proc.frame.kind = "transcription"
    /\ proc.frame.is_final # "false"
    /\ strip(proc.frame.text) # <<>>
    /\ Len(proc.pushing) = 1

ResetForm(s) ==
    /\ s.phase = IDLE
    /\ s.current_intent = None
    /\ s.draft_email = NoneDraft

InterimFrame(frame) ==
    \/ frame.kind = "interim"
    \/ frame.kind = "transcription" /\ frame.is_final = "false"

\* C16: an interim transcription frame is pushed downstream as it came, no
\* turn is run for it and the conversation state stays as it was
C16_InterimPassesThrough ==
    InterimFrame(proc.frame) =>
        /\ last.op = "frame"
        /\ last.handling = "forwarded"
        /\ state = last.pre
        /\ Len(journal) = last.calls
        /\ proc.pushed # <<>>
        /\ proc.pushed[Len(proc.pushed)] = proc.frame

\* a non-final transcription frame with words in it reached an idle processor
C16_Witness ==
    /\ InterimFrame(proc.frame)
    /\ proc.frame.kind = "transcription"
    /\ strip(proc.frame.text) # <<>>
    /\ ~proc.processing
    /\ state.phase = WAITING_CONFIRMATION

\* C17: every turn, in every phase, appends the utterance as a user message
\* and the returned response as an assistant message, so the last two history
\* entries are that utterance followed by that response.
C17_TurnRecordsBoth ==
    TurnDone =>
        LET h == state.conversation_history
        IN  /\ Len(h) >= 2
            /\ h[Len(h) - 1] = [role |-> "user", content |-> Utterance(last.text)]
            /\ h[Len(h)] = [role |-> "assistant", content |-> last.response]

\* C18: reset() sets phase to Idle, clears current_intent, draft_email,
\* current_email_id, last_search_query and last_search_results, and leaves
\* the history as it was.
C18_ResetClearsAllButHistory ==
    last.op = "reset" =>
        /\ state.phase = IDLE
        /\ state.current_intent = None
        /\ state.draft_email = NoneDraft
        /\ state.current_email_id = None
        /\ state.last_search_query = NoneText
        /\ state.last_search_results = <<>>
        /\ state.conversation_history = last.pre.conversation_history

C18_Witness ==
    /\ last.op = "reset"
    /\ last.pre.phase = WAITING_CONFIRMATION
    /\ last.pre.current_intent = SEND_EMAIL
    /\ last.pre.draft_email # NoneDraft
    /\ last.pre.current_email_id # None
    /\ last.pre.last_search_query = QueryQ
    /\ last.pre.last_search_results # <<>>
    /\ last.pre.conversation_history # <<>>
    /\ state.phase = IDLE
    /\ state.conversation_history # <<>>

\* the turn read the inbox and got at least one email
NonEmptyReadTurn ==
    /\ TurnDone
    /\ last.reads # <<>>
    /\ last.reads[1].returned > 0

\* C19: a ReadEmail turn whose read returns n > 0 emails inlines sender and
\* subject of exactly min(n, 3) emails, and appends the remainder n - 3 if
\* and only if n > 3.
C19_ReadSummaryInlinesThree ==
    NonEmptyReadTurn =>
        LET n == last.reads[1].returned
        IN  /\ last.response.kind = "read_summary"
            /\ last.response.count = n
            /\ Len(last.response.inlined) = Min(n, 3)
            /\ \A i \in 1..Len(last.response.inlined) :
                  last.response.inlined[i] = EmailSummary(i)
            /\ last.response.more = IF n > 3 THEN <<n - 3>> ELSE <<>>

C19_Witness ==
    /\ NonEmptyReadTurn
    /\ last.reads[1].returned = 5
    /\ Len(last.response.inlined) = 3
    /\ last.response.more = <<2>>

\* C20: when the send succeeds during a confirmed send, the response is the
\* success confirmation naming the recipient, not an error apology.
C20_SuccessNamesRecipient ==
    (ConfirmedSendTurn /\ last.sent # <<>> /\ last.sent[1].result.success) =>
        last.response = [kind |-> "sent",
                         recipient |-> last.pre.draft_email.recipient]

\* the turn ran the SendEmail handler on a state that had a draft
SendTurnOnDraft ==
    /\ TurnDone
    /\ last.raised = <<>>
    /\ last.intent.type = SEND_EMAIL
    /\ last.pre.phase # WAITING_CONFIRMATION
    /\ last.pre.draft_email # NoneDraft

\* C21: a SendEmail turn never clears a draft field: each of recipient,
\* subject and body that is non-empty before the turn is non-empty after it,
\* whatever entities the intent carries.
C21_SendNeverClearsField ==
    SendTurnOnDraft =>
        /\ state.draft_email # NoneDraft
        /\ \A k \in SendKeys :
              Truthy(last.pre.draft_email[k]) => Truthy(state.draft_email[k])

\* the turn began in WAITING_CONFIRMATION
WaitingTurn ==
    /\ TurnDone
    /\ last.raised # <<"intent_service">>
    /\ last.pre.phase = WAITING_CONFIRMATION

Affirmative(text) == AnyWordIn(AffirmativeWords, lower(text))
Negative(text) == AnyWordIn(NegativeWords, lower(text))

\* C22: a turn that begins in WaitingConfirmation calls no read and no
\* search and, unless the utterance is affirmative, resets nothing, whatever
\* intent was classified; what it does follows from the affirmative and
\* negative words of the utterance alone
C22_WaitingBypassesIntent ==
    WaitingTurn =>
        /\ last.reads = <<>>
        /\ last.searches = <<>>
        /\ ~Affirmative(last.text) =>
              /\ last.sent = <<>>
              /\ state.phase = COLLECTING_INFO
              /\ state.current_intent = last.pre.current_intent
              /\ state.draft_email = last.pre.draft_email
        /\ last.response.kind \in
              IF Affirmative(last.text)
              THEN {"sent", "send_error", "not_sure_what_to_confirm"}
              ELSE IF Negative(last.text)
              THEN {"what_to_change"}
              ELSE {"what_to_change_field"}

\* the confirmation prompt was answered with an utterance classified as
\* ReadEmail
C22_Witness ==
    /\ WaitingTurn
    /\ last.intent.type = READ_EMAIL
    /\ last.text = TextHmm
    /\ state.phase = COLLECTING_INFO
    /\ state.draft_email = last.pre.draft_email

\* the confirmation prompt for a send was answered with neither an
\* affirmative nor a negative word
CorrectionTurn ==
    /\ WaitingTurn
    /\ last.pre.current_intent = SEND_EMAIL
    /\ ~Affirmative(last.text)
    /\ ~Negative(last.text)

\* C23: in WaitingConfirmation for a send, an utterance with neither an
\* affirmative nor a negative word moves the phase to CollectingInfo, asks
\* which of recipient, subject or message to change, sends nothing and
\* leaves the draft as it was, whatever intent was classified
C23_CorrectionKeepsDraft ==
    CorrectionTurn =>
        /\ state.phase = COLLECTING_INFO
        /\ last.response = Say("what_to_change_field")
        /\ last.sent = <<>>
        /\ state.draft_email = last.pre.draft_email

\* the utterance was classified as a SendEmail that carries a recipient
C23_Witness ==
    /\ CorrectionTurn
    /\ last.intent.type = SEND_EMAIL
    /\ TruthyDict(last.intent.entities)
    /\ "recipient" \in DOMAIN last.intent.entities
    /\ last.intent.entities.recipient # last.pre.draft_email.recipient
    /\ state.phase = COLLECTING_INFO

\* C24: in every state reached through turns and resets the phase is not
\* Error and last_error is unset, also after a turn in which the intent
\* service or the email service failed
C24_NeverInErrorPhase ==
    /\ state.phase # ERROR
    /\ state.last_error = None

\* a turn in which the intent service raised has ended, and a turn in which
\* the email service raised came before it
C24_Witness ==
    /\ TurnDone
    /\ last.raised = <<"intent_service">>
    /\ Len(journal) >= 2
    /\ journal[Len(journal) - 1].raised = <<"email_service">>
    /\ state.phase # ERROR

\* the turn ran the ReadEmail handler and the mailbox read failed
FailedReadTurn ==
    /\ TurnDone
    /\ last.reads # <<>>
    /\ last.reads[1].failed

\* C25: when the mailbox read fails during a ReadEmail turn, the response is
\* the "had trouble accessing your emails" apology, not the "no new emails"
\* message, and the turn ends in phase Idle.
C25_FailedReadApologizes ==
    FailedReadTurn =>
        /\ last.response = Say("read_error")
        /\ state.phase = IDLE

\* the turn ran the SearchEmail handler
SearchTurnDone ==
    /\ TurnDone
    /\ last.intent.type = SEARCH_EMAIL
    /\ last.pre.phase # WAITING_CONFIRMATION

\* intent.entities.get("query", "") if intent.entities else ""
QueryOf(intent) ==
    IF TruthyDict(intent.entities) THEN Get(intent.entities, "query", <<>>) ELSE <<>>

\* C26: a SearchEmail turn without a query, or with an empty one, ends in
\* CollectingInfo and calls no search; with a query it calls search exactly
\* once and ends in Idle, whether the search finds nothing, finds something
\* or raises
C26_SearchPhaseAndCalls ==
    SearchTurnDone =>
        IF Truthy(QueryOf(last.intent))
        THEN /\ Len(last.searches) = 1
             /\ last.searches[1].query = QueryOf(last.intent)
             /\ state.phase = IDLE
        ELSE /\ last.searches = <<>>
             /\ state.phase = COLLECTING_INFO
             /\ last.response = Say("ask_search_query")

\* a search with a query raised from the email service
C26_Witness ==
    /\ SearchTurnDone
    /\ last.raised = <<"email_service">>
    /\ Len(last.searches) = 1
    /\ last.pre.phase = COLLECTING_INFO
    /\ state.phase = IDLE

\* the turn ran the SendEmail handler and left some field of the draft empty
IncompleteSendTurn ==
    /\ TurnDone
    /\ last.intent.type = SEND_EMAIL
    /\ last.pre.phase # WAITING_CONFIRMATION
    /\ state.draft_email # NoneDraft
    /\ ~is_complete(state.draft_email)

\* C27: after a SendEmail turn that leaves some field empty, the phase is
\* CollectingInfo and the response is the question for the first empty field
\* in the order recipient, subject, body.
C27_AsksFirstEmptyField ==
    IncompleteSendTurn =>
        /\ state.phase = COLLECTING_INFO
        /\ last.response.kind = "ask_field"
        /\ FirstEmptyField = {last.response.field}

\* recipient filled, subject and body empty: the turn asked for the subject
C27_Witness ==
    /\ IncompleteSendTurn
    /\ Truthy(state.draft_email.recipient)
    /\ ~Truthy(state.draft_email.subject)
    /\ ~Truthy(state.draft_email.body)
    /\ last.response = _ask_for_missing_field("subject")

\* the pattern path was taken, no pattern matched, and the conversation is
\* collecting the fields of a draft
ContextAnswer ==
    /\ TotalFailure
    /\ CollectingDraft

\* C28: when the pattern path matches nothing while the conversation is in
\* CollectingInfo for SendEmail, the intent returned is SendEmail with
\* confidence 0.7 whose entities give the utterance to the first empty field
\* of the draft, in the order recipient, subject, body, and to no other field
C28_ContextFillsFirstEmpty ==
    ContextAnswer =>
        last.intent = UserIntent(SEND_EMAIL, 70,
                                 [k \in FirstEmptyField |-> strip(last.text)],
                                 last.text)

\* the draft had its recipient and lacked subject and body: the utterance
\* became the subject alone
C28_Witness ==
    /\ ContextAnswer
    /\ Truthy(state.draft_email.recipient)
    /\ ~Truthy(state.draft_email.subject)
    /\ ~Truthy(state.draft_email.body)
    /\ last.intent.entities = [subject |-> TextHmm]

\* the turn's intent was Unclear
UnclearTurn ==
    /\ TurnDone
    /\ last.raised = <<>>
    /\ last.intent.type = UNCLEAR

\* the turn began in CollectingInfo for a send whose draft lacked a field
CollectingIncompleteBefore ==
    /\ last.pre.phase = COLLECTING_INFO
    /\ last.pre.current_intent = SEND_EMAIL
    /\ last.pre.draft_email # NoneDraft
    /\ ~is_complete(last.pre.draft_email)

\* the turn changed nothing but the history
StateKept ==
    [state EXCEPT !.conversation_history = last.pre.conversation_history] = last.pre

\* the reply of an Unclear turn: the question for the first missing field
\* while a send is being collected, the generic reply otherwise
UnclearReply ==
    IF CollectingIncompleteBefore
    THEN last.response = _ask_for_missing_field(_get_missing_email_fields(last.pre)[1])
    ELSE last.response = Say("did_not_understand")

\* C29 as stated: an Unclear intent in CollectingInfo for a send with an
\* incomplete draft re-asks the question for the first missing field and
\* leaves phase, current_intent and draft as they were; in every other
\* situation it gets the generic reply and leaves the state as it was.
C29_UnclearReasksOrGeneric ==
    UnclearTurn => UnclearReply /\ StateKept

\* C29 amended: the same, for every turn that does not begin in
\* WaitingConfirmation; a turn that begins there is answered by the
\* confirmation phase, whatever its intent.
C29_UnclearOutsideConfirmation ==
    (UnclearTurn /\ last.pre.phase # WAITING_CONFIRMATION) =>
        UnclearReply /\ StateKept

\* an Unclear turn while the subject was being collected asked for it again
C29_Witness ==
    /\ UnclearTurn
    /\ CollectingIncompleteBefore
    /\ Truthy(last.pre.draft_email.recipient)
    /\ last.response = _ask_for_missing_field("subject")
    /\ state.phase = COLLECTING_INFO

\* the turn ran the Cancel handler in a phase other than Idle
CancelTurn ==
    /\ TurnDone
    /\ last.raised = <<>>
    /\ last.intent.type = CANCEL
    /\ last.pre.phase \notin {IDLE, WAITING_CONFIRMATION}

\* C30: a Cancel intent in a phase other than Idle and WaitingConfirmation
\* resets the state (phase Idle, current_intent and draft cleared, history
\* kept) and the response names the operation that was current before.
C30_CancelResetsAndNames ==
    CancelTurn =>
        /\ state.phase = IDLE
        /\ state.current_intent = None
        /\ state.draft_email = NoneDraft
        /\ last.pre.current_intent # None
        /\ last.response = [kind |-> "cancelled", what |-> last.pre.current_intent]
        /\ state.conversation_history =
              last.pre.conversation_history
              \o <<[role |-> "user", content |-> Utterance(last.text)],
                   [role |-> "assistant", content |-> last.response]>>

\* a send whose recipient was known was cancelled
C30_Witness ==
    /\ CancelTurn
    /\ last.pre.phase = COLLECTING_INFO
    /\ last.pre.draft_email # NoneDraft
    /\ Truthy(last.pre.draft_email.recipient)
    /\ last.response.what = SEND_EMAIL
    /\ state.draft_email = NoneDraft

\* the IntentType values that have no entry in intent_handlers
UnmappedTypes ==
    {DELETE_EMAIL, MARK_READ, REPEAT, CLARIFY, NEXT, PREVIOUS, GREETING,
     GOODBYE, THANK_YOU}

\* the turn was dispatched through the handler table with an intent type
\* that has no entry in it
UnmappedTurn ==
    /\ TurnDone
    /\ last.raised = <<>>
    /\ last.pre.phase # WAITING_CONFIRMATION
    /\ last.intent.type \in UnmappedTypes

\* what the Unclear handler makes of the state the turn began in
AsUnclear ==
    _handle_unclear(add_message(last.pre, "user", Utterance(last.text)),
                    UserIntent(UNCLEAR, last.intent.confidence,
                               last.intent.entities, last.text),
                    EmptyDict)

\* C31: outside WaitingConfirmation an intent of a type without an entry in
\* the handler table (DeleteEmail, MarkRead, Repeat, Clarify, Next, Previous,
\* Greeting, Goodbye, ThankYou) is handled as Unclear is: the same response
\* and the same state
C31_UnmappedHandledAsUnclear ==
    UnmappedTurn =>
        /\ last.response = AsUnclear.response
        /\ state = add_message(AsUnclear.state, "assistant", AsUnclear.response)
        /\ last.sent = <<>>
        /\ last.reads = <<>>
        /\ last.searches = <<>>

\* a Goodbye while the subject of a send was being collected asked for the
\* subject again
C31_Witness ==
    /\ UnmappedTurn
    /\ last.intent.type = GOODBYE
    /\ last.pre.phase = COLLECTING_INFO
    /\ last.pre.current_intent = SEND_EMAIL
    /\ last.response = _ask_for_missing_field("subject")

\* the turn answered the confirmation prompt of a complete draft with an
\* utterance that has a negative word in it
NegativeReplyTurn ==
    /\ WaitingTurn
    /\ last.pre.current_intent = SEND_EMAIL
    /\ last.pre.draft_email # NoneDraft
    /\ is_complete(last.pre.draft_email)
    /\ Negative(last.text)

\* C32: in WaitingConfirmation an utterance that contains a negative word
\* (no, nope, cancel, stop, wait) never invokes the send action, also when
\* it contains an affirmative word as well.
C32_NegativeNeverSends ==
    NegativeReplyTurn => last.sent = <<>>

\* turn k ran the SendEmail handler and ended in WaitingConfirmation
EntersConfirmation(k) ==
    /\ journal[k].intent.type = SEND_EMAIL
    /\ journal[k].phase = WAITING_CONFIRMATION

\* C33: the send action is invoked at most once per entry into
\* WaitingConfirmation: no turn sends twice, and between two turns that
\* send, whether the first send returned or raised, a SendEmail turn has
\* brought the phase to WaitingConfirmation again
C33_OneSendPerConfirmation ==
    /\ \A i \in 1..Len(journal) : journal[i].sent <= 1
    /\ \A i \in 1..Len(journal) :
          journal[i].sent = 1 =>
              /\ i > 1
              /\ journal[i - 1].phase = WAITING_CONFIRMATION
              /\ journal[i].phase # WAITING_CONFIRMATION
    /\ \A i, j \in 1..Len(journal) :
          (i < j /\ journal[i].sent = 1 /\ journal[j].sent = 1) =>
              \E k \in (i + 1)..(j - 1) : EntersConfirmation(k)

\* "yes" was said again after a send that raised, and nothing was sent
C33_Witness ==
    /\ TurnDone
    /\ Len(journal) = 3
    /\ journal[2].sent = 1
    /\ journal[2].raised = <<"email_service">>
    /\ last.text = TextYes
    /\ last.intent.type = CONFIRM
    /\ last.sent = <<>>

\* the intent types whose handlers do not write to the draft
DraftKeepingTypes ==
    {READ_EMAIL, SEARCH_EMAIL, REPLY_EMAIL, HELP, CONFIRM, UNCLEAR}

\* a turn of one of those types ended, and a draft was set when it began
DraftKeepingTurn ==
    /\ TurnDone
    /\ last.raised # <<"intent_service">>
    /\ last.intent.type \in DraftKeepingTypes
    /\ last.pre.draft_email # NoneDraft

\* C34: a draft that was set is unset only by reset(), which leaves phase
\* Idle and no current intent; a ReadEmail, SearchEmail, ReplyEmail, Help,
\* Confirm or Unclear turn that does not go through reset() leaves the
\* draft's recipient, subject and body as they were
C34_DraftUnsetOnlyByReset ==
    /\ (/\ last.op \in {"turn", "reset"}
        /\ last.pre.draft_email # NoneDraft
        /\ state.draft_email = NoneDraft) => ResetForm(state)
    /\ DraftKeepingTurn =>
          \/ state.draft_email = last.pre.draft_email
          \/ ResetForm(state) /\ last.sent # <<>>

\* a read turn ran between the filling of a draft and now, and the draft
\* is the one the earlier turn left
C34_Witness ==
    /\ DraftKeepingTurn
    /\ last.intent.type = READ_EMAIL
    /\ last.reads # <<>>
    /\ last.pre.phase = COLLECTING_INFO
    /\ last.pre.draft_email.recipient # None
    /\ state.draft_email = last.pre.draft_email

\* the turn began in CollectingInfo, its intent is not an AI classification
\* (those are returned only with a confidence above 0.7) and the utterance
\* matches no intent pattern
UnmatchedCollectingTurn ==
    /\ TurnDone
    /\ last.raised # <<"intent_service">>
    /\ last.pre.phase = COLLECTING_INFO
    /\ last.intent.confidence <= ContextConfidence
    /\ MatchingEntries(strip(lower(last.text))) = {}

\* the turn began after a declined confirmation: collecting for a send, with
\* a draft that has all three fields
DeclinedDraftTurn ==
    /\ UnmatchedCollectingTurn
    /\ last.pre.current_intent = SEND_EMAIL
    /\ last.pre.draft_email # NoneDraft
    /\ is_complete(last.pre.draft_email)

\* C35: in CollectingInfo with a complete draft, an utterance that the
\* pattern path cannot match is classified SendEmail with confidence 0.7 and
\* empty entities, no field of the draft changes, nothing is sent, and the
\* phase is WaitingConfirmation again
C35_DeclinedDraftReturnsToConfirmation ==
    DeclinedDraftTurn =>
        /\ last.intent = UserIntent(SEND_EMAIL, ContextConfidence,
                                    EmptyDict, last.text)
        /\ state.draft_email = last.pre.draft_email
        /\ state.current_intent = SEND_EMAIL
        /\ state.phase = WAITING_CONFIRMATION
        /\ last.sent = <<>>

\* "hmm" after a declined confirmation: the confirmation is asked again
C35_Witness ==
    /\ DeclinedDraftTurn
    /\ last.text = TextHmm
    /\ state.phase = WAITING_CONFIRMATION
    /\ state.draft_email = [recipient |-> RecipientA, subject |-> SubjectS, body |-> BodyB]

\* the bot has asked what to search for: collecting, with a search pending
PendingSearchTurn ==
    /\ UnmatchedCollectingTurn
    /\ last.pre.current_intent = SEARCH_EMAIL

\* C36: in CollectingInfo with current_intent SearchEmail, an utterance that
\* the pattern path cannot match is classified Unclear with confidence 0.0;
\* the turn calls no search, answers with the generic reply and leaves
\* phase, current_intent and the search context as they were
C36_PendingSearchNotAnswered ==
    PendingSearchTurn =>
        /\ last.intent.type = UNCLEAR
        /\ last.intent.confidence = 0
        /\ last.searches = <<>>
        /\ last.response = Say("did_not_understand")
        /\ state.phase = COLLECTING_INFO
        /\ state.current_intent = SEARCH_EMAIL
        /\ state.last_search_query = last.pre.last_search_query
        /\ state.last_search_results = last.pre.last_search_results

\* "hmm" was said to the question what to search for, and no search of an
\* earlier turn was pending either
C36_Witness ==
    /\ PendingSearchTurn
    /\ last.text = TextHmm
    /\ last.pre.draft_email = NoneDraft
    /\ last.pre.last_search_query = NoneText
    /\ state.current_intent = SEARCH_EMAIL
    /\ last.searches = <<>>

\* a finalized transcript with text: the kind of frame that starts a turn
\* when the processor is free
FinalTranscript(frame) ==
    /\ frame.kind = "transcription"
    /\ frame.is_final # "false"
    /\ strip(frame.text) # <<>>

\* the positions downstream taken by responses, and by frames passed on
ResponsesPushed == {i \in 1..Len(proc.pushed) : proc.pushed[i].kind = "tts"}
FramesPassedOn == {i \in 1..Len(proc.pushed) : proc.pushed[i].kind # "tts"}

\* C37: a frame that arrives while a turn is in flight is passed downstream
\* without a call of process_user_input, without a response and with the
\* processor still busy; it is kept nowhere, so each frame received is passed
\* on or starts at most one turn, and there are never more responses than
\* turns
C37_BusyTranscriptDropped ==
    /\ [][(proc.processing /\ proc'.received = proc.received + 1) =>
            /\ journal' = journal
            /\ state' = state
            /\ proc'.pushing = proc.pushing
            /\ proc'.pushed = Append(proc.pushed, proc'.frame)
            /\ proc'.processing]_vars
    /\ [](Len(journal) + Cardinality(FramesPassedOn) <= proc.received)
    /\ [](Cardinality(ResponsesPushed) + Len(proc.pushing) <= Len(journal))

\* a finalized transcript came during a turn and went downstream; the turn's
\* response has been pushed since, and one turn is all that ever ran
C37_Witness ==
    /\ last.op = "pushed"
    /\ proc.received = 2
    /\ Len(journal) = 1
    /\ proc.pushing = <<>>
    /\ ~proc.processing
    /\ Len(proc.pushed) = 2
    /\ FinalTranscript(proc.pushed[1])
    /\ proc.pushed[2].kind = "tts"

\* C38: the busy flag is set only while an invocation is inside the guarded
\* region: an empty transcript, a pushed response, a push that raised and a
\* cancelled push all leave it clear; so a finalized transcript with text
\* that arrives when no turn is in flight starts a turn
C38_BusyFlagReleased ==
    /\ [](proc.pushing = <<>> => ~proc.processing)
    /\ [][last'.op = "pushed" => ~proc'.processing]_vars
    /\ [][(/\ proc.pushing = <<>>
           /\ proc'.received = proc.received + 1
           /\ FinalTranscript(proc'.frame)) =>
              /\ Len(journal') = Len(journal) + 1
              /\ last'.op = "turn"
              /\ Len(proc'.pushing) = 1]_vars

\* a second turn runs after an empty transcript and after a push that
\* raised, which put the error response downstream
C38_Witness ==
    /\ TurnDone
    /\ Len(journal) = 2
    /\ journal[1].raised = <<>>
    /\ proc.received = 3
    /\ proc.processing
    /\ proc.pushed = <<TTSSpeakFrame(ProcessorErrorResponse)>>

\* the _run_bot tasks that were created for a room and have not ended
StartedBots(room_name) ==
    {c \in StartCalls :
        /\ manager.bots[c] \in {"scheduled", "running"}
        /\ manager.starts[c].room_name = room_name}

\* C39: no room ever has two bot instances started at the same time
C39_OneBotPerRoom ==
    \A room_name \in Rooms : Cardinality(StartedBots(room_name)) <= 1

====
